---- MODULE Spec2Model ----
(***************************************************************************)
(* A model of the Ocean CI dashboard core: the job dependency-graph        *)
(* layout (WorkflowGraph layoutGraph), the worst-status aggregation, the   *)
(* branch summarizer of useBranches and the generic data hook useAsyncData.*)
(***************************************************************************)
EXTENDS Naturals, Integers, Sequences, FiniteSets, TLC

VARIABLES
    jobs,       \* PipelineGraph: the Job[] handed to layoutGraph
    layout,     \* PipelineGraph: the result of layoutGraph, NoLayout before the call
    workflows,  \* the statuses of the Workflow[] handed to the aggregators
    aggregate,  \* what aggregateWorkflowStatus and the PipelineCard returned
    upstream,       \* the project's pipelines as the CircleCI API holds them
    pc,             \* useBranches fetcher: where the invocation stands
    page,           \* useBranches fetcher: the loop variable `page`
    pageLog,        \* how each getPipelines call settled, in call order
    pageToken,      \* useBranches fetcher: `pageToken`
    allPipelines,   \* useBranches fetcher: `allPipelines`
    entries,        \* useBranches fetcher: Array.from(branchMap.entries())
    branchCounts,   \* useBranches fetcher: `branchCounts`
    triggeredCount, \* useBranches fetcher: `triggeredCount`
    batchStart,     \* useBranches fetcher: the loop variable `i`
    inflight,       \* the promises of the current batch, in batch order
    branches,       \* useBranches fetcher: `branches`
    wfIssued,       \* the pipeline ids getWorkflows was called with
    wfLog,          \* how each getWorkflows call settled, by pipeline id
    data,           \* useAsyncData: `data`
    error,          \* useAsyncData: `error`
    loading,        \* useAsyncData: `loading`
    errorCount,     \* how often setError was called with a message
    requests,       \* useAsyncData: the load() calls so far, in call order
    mounted,        \* the view that uses the hook is mounted
    interval,       \* useAsyncData: the poll interval of intervalRef is set
    timers,         \* WorkflowDetail: pending setTimeout(refetch, 1500) timers
    actions,        \* WorkflowDetail: the rerun/cancel requests, in call order
    triggered,      \* Triggers page: the TriggeredPipeline[] handed to buildGroups
    groups,         \* Triggers page: what buildGroups returned
    ms,             \* the milliseconds handed to formatDuration
    formatted,      \* what formatDuration returned
    timedJobs,      \* JobTimeline: the jobs handed to computeTimeline
    now,            \* JobTimeline: what Date.now() returns while the end times are read
    clockAdvance,   \* JobTimeline: the ms the clock has advanced when the bars are built
    timeline,       \* JobTimeline: what computeTimeline returned
    statuses,       \* the statuses of the entities a view shows
    activity,       \* what isActiveStatus returned for them
    request,        \* server.js: the request the handler is called with
    proxied,        \* server.js: what the handler did with it
    gridInput,      \* JobTimeline: totalMs and chartWidth handed to generateGridLines
    gridLines,      \* JobTimeline: what generateGridLines returned
    fetcher,        \* useAsyncData: the `fetcher` argument is a function, not null
    project,        \* the project's pipelines and the page size of the API
    pageCounts,     \* what the Branches page and the Triggers page made of them
    authState,      \* AuthProvider: `state`
    storage,        \* localStorage: the token and the project slug
    validation,     \* AuthProvider: the getMe call of the mount effect
    logins          \* AuthProvider: the login() calls, in call order

layoutVars == <<jobs, layout>>
statusVars == <<workflows, aggregate>>
fetcherVars == <<upstream, pc, page, pageLog, pageToken, allPipelines, entries, branchCounts,
                 triggeredCount, batchStart, inflight, branches, wfIssued, wfLog>>
groupVars == <<triggered, groups>>
durationVars == <<ms, formatted>>
timelineVars == <<timedJobs, now, clockAdvance, timeline>>
activeVars == <<statuses, activity>>
proxyVars == <<request, proxied>>
gridVars == <<gridInput, gridLines>>
panelVars == <<fetcher>>
countVars == <<project, pageCounts>>
authVars == <<authState, storage, validation, logins>>
moreVars == <<gridVars, panelVars, countVars, authVars>>
otherVars == <<groupVars, durationVars, timelineVars, activeVars, proxyVars, moreVars>>
viewVars == <<mounted, interval, timers, actions>>
hookVars == <<data, error, loading, errorCount, requests, viewVars>>
vars == <<jobs, layout, workflows, aggregate, upstream, pc, page, pageLog, pageToken,
          allPipelines, entries, branchCounts, triggeredCount, batchStart, inflight,
          branches, wfIssued, wfLog, data, error, loading, errorCount, requests,
          mounted, interval, timers, actions, triggered, groups,
          ms, formatted, timedJobs, now, clockAdvance, timeline, statuses, activity,
          request, proxied, gridInput, gridLines, fetcher, project, pageCounts,
          authState, storage, validation, logins>>

----------------------------------------------------------------------------
(* Generic helpers *)

Max2(a, b) == IF a >= b THEN a ELSE b

Range(s) == {s[i] : i \in DOMAIN s}

RECURSIVE SeqSum(_)
SeqSum(s) == IF s = <<>> THEN 0 ELSE s[1] + SeqSum(Tail(s))

\* All sequences over S of length at most n in which no element repeats.
RECURSIVE DistinctSeqs(_, _)
DistinctSeqs(S, n) ==
    IF n = 0 THEN {<<>>}
    ELSE LET shorter == DistinctSeqs(S, n - 1)
         IN shorter \cup
            UNION { {Append(s, x) : x \in S \ Range(s)} :
                    s \in {t \in shorter : Len(t) = n - 1} }

----------------------------------------------------------------------------
(* The layout inputs *)

\* The most jobs a workflow holds; a list of n jobs holds the ids 1..n.
MaxJobs == 3
JobIds == 1..MaxJobs

\* The most dependency entries the jobs of one list hold together.
MaxEdges == 3

(* Program constants of the graph canvas *)
NODE_RADIUS == 22
COL_SPACING == 160
ROW_SPACING == 72
PADDING_X == 50
PADDING_Y == 50

\* Job names, listed in the order String.prototype.localeCompare gives them.
NameOrder == <<"build", "test">>
Names == Range(NameOrder)

\* Job ids a dependency entry may hold: the ids of the jobs, and one id that
\* no job carries (a dangling reference).
DepIds == JobIds \cup {MaxJobs + 1}

\* The call stack the engine gives the recursion of getDepth: a call nested
\* deeper than this raises RangeError.
StackLimit == MaxJobs + 2

NoLayout == [called |-> FALSE]

\* The lists of distinct dependency ids one job may hold, in ascending order
\* of id (job k of a list has id k, so every graph shape is still covered).
DepSeqs ==
    {d \in DistinctSeqs(DepIds, MaxEdges) : \A i \in 1..(Len(d) - 1) : d[i] < d[i + 1]}

\* The Job[] input of n jobs: job k of the list has id k, the name nm[k] and
\* the dependency ids ds[k].
JobList(n, nm, ds) ==
    [k \in 1..n |-> [id |-> k, name |-> nm[k], dependencies |-> ds[k]]]

\* Every reordering of a job list.
Reorderings(js) ==
    {[i \in DOMAIN js |-> js[p[i]]] : p \in Permutations(DOMAIN js)}

----------------------------------------------------------------------------
(* layoutGraph *)

\* a.name.localeCompare(b.name): negative, zero or positive.
NameRank(nm) == CHOOSE i \in DOMAIN NameOrder : NameOrder[i] = nm
localeCompare(a, b) == NameRank(a) - NameRank(b)

\* new Map(jobs.map((j) => [j.id, j])): a later entry with the same id
\* replaces an earlier one.
jobMapHas(js, jobId) == \E k \in DOMAIN js : js[k].id = jobId
jobMapGet(js, jobId) ==
    js[CHOOSE k \in DOMAIN js :
          /\ js[k].id = jobId
          /\ \A m \in DOMAIN js : js[m].id = jobId => m <= k]

\* The state one getDepth call reads and writes: the memo `depths`, the
\* `visited` set of the current top-level call, the value returned, whether
\* the call stack overflowed, and (for observation only) the calls that
\* took the cycle-protection return: the job, the value returned and
\* whether the job was still being computed on the recursion path.
DepthState0 ==
    [depths |-> <<>>, visited |-> {}, ret |-> 0, overflow |-> FALSE, revisits |-> {}]

RECURSIVE getDepth(_, _, _, _)
RECURSIVE depLoop(_, _, _, _, _, _)

\* The `visited.has(jobId)` branch of getDepth: "cycle protection".
cycleReturn(jobId, st, path) ==
    [st EXCEPT !.ret = 0,
               !.revisits = @ \cup {[job |-> jobId, ret |-> 0,
                                     onPath |-> jobId \in Range(path)]}]

\* getDepth without its cycle protection.
cycleGuardMissing(jobId, st) == FALSE

\* Whether getDepth takes its cycle-protection return for jobId.
cycleGuard(jobId, st) == jobId \in st.visited

\* getDepth(jobId, visited); `path` is the chain of jobs whose calls are on
\* the stack, the callee excluded.
getDepth(js, jobId, st, path) ==
    IF Len(path) >= StackLimit THEN [st EXCEPT !.overflow = TRUE]
    ELSE IF jobId \in DOMAIN st.depths THEN [st EXCEPT !.ret = st.depths[jobId]]
    ELSE IF cycleGuard(jobId, st) THEN cycleReturn(jobId, st, path)
    ELSE LET st1 == [st EXCEPT !.visited = @ \cup {jobId}]
         IN IF \/ ~jobMapHas(js, jobId)
               \/ Len(jobMapGet(js, jobId).dependencies) = 0
            THEN [st1 EXCEPT !.depths = (jobId :> 0) @@ @, !.ret = 0]
            ELSE LET r == depLoop(js, jobMapGet(js, jobId).dependencies, 1, 0,
                                  st1, Append(path, jobId))
                 IN IF r.overflow THEN r
                    ELSE [r EXCEPT !.depths = (jobId :> r.ret) @@ @]

\* A dependency that lifts no job above it.
parentDepthSame(depRet) == depRet

\* What one resolvable dependency contributes to maxParent.
parentDepth(depRet) == depRet + 1

\* The dependency loop without its jobMap.has(depId) test.
depResolvesUnchecked(js, depId) == TRUE

\* Whether a dependency id takes part in the depth (jobMap.has(depId)).
depResolves(js, depId) == jobMapHas(js, depId)

\* The loop `for (const depId of job.dependencies)`; returns with ret = maxParent.
depLoop(js, deps, i, maxParent, st, path) ==
    IF st.overflow THEN st
    ELSE IF i > Len(deps) THEN [st EXCEPT !.ret = maxParent]
    ELSE IF depResolves(js, deps[i])
         THEN LET r == getDepth(js, deps[i], st, path)
              IN depLoop(js, deps, i + 1, Max2(maxParent, parentDepth(r.ret)), r, path)
         ELSE depLoop(js, deps, i + 1, maxParent, st, path)

\* `for (const job of jobs) getDepth(job.id)`: each top-level call starts
\* with a fresh visited set; depths persists.
RECURSIVE computeDepths(_, _, _)
computeDepths(js, k, st) ==
    IF k > Len(js) \/ st.overflow THEN st
    ELSE computeDepths(js, k + 1,
                       getDepth(js, js[k].id, [st EXCEPT !.visited = {}], <<>>))

\* depths.get(job.id) ?? 0
depthOf(st, jobId) == IF jobId \in DOMAIN st.depths THEN st.depths[jobId] ELSE 0

\* The keys of the `columns` Map in insertion order: a depth is inserted
\* when the first job of that depth is met in `jobs` order.
RECURSIVE columnKeys(_, _, _, _)
columnKeys(js, st, k, keys) ==
    IF k > Len(js) THEN keys
    ELSE LET d == depthOf(st, js[k].id)
         IN columnKeys(js, st, k + 1,
                       IF d \in Range(keys) THEN keys ELSE Append(keys, d))

\* columns.get(depth) before sorting: the jobs of that depth in `jobs` order.
columnJobs(js, st, depth) ==
    SelectSeq(js, LAMBDA j : depthOf(st, j.id) = depth)

\* A comparator that leaves the column in input order.
columnCompareInputOrder(a, b) == 0

\* The comparator handed to colJobs.sort: a comes after b when it is positive.
columnCompare(a, b) == localeCompare(a.name, b.name)

\* Array.prototype.sort is stable: an element is placed after every element
\* already placed that does not compare greater than it.
RECURSIVE sortColumn(_)
sortColumn(col) ==
    IF Len(col) <= 1 THEN col
    ELSE LET front == sortColumn(SubSeq(col, 1, Len(col) - 1))
             x == col[Len(col)]
             keep == {i \in DOMAIN front : columnCompare(front[i], x) <= 0}
             n == IF keep = {} THEN 0
                  ELSE CHOOSE i \in keep : \A m \in keep : m <= i
         IN SubSeq(front, 1, n) \o <<x>> \o SubSeq(front, n + 1, Len(front))

\* The GraphNode built for the job at `row` of the column of `depth`.
graphNode(job, depth, row) ==
    [id |-> job.id, name |-> job.name, depth |-> depth, row |-> row,
     x |-> PADDING_X + depth * COL_SPACING,
     y |-> PADDING_Y + row * ROW_SPACING,
     dependencies |-> job.dependencies]

\* The nodes of one column, rows numbered from 0.
columnNodes(js, st, depth) ==
    LET col == sortColumn(columnJobs(js, st, depth))
    IN [r \in DOMAIN col |-> graphNode(col[r], depth, r - 1)]

\* `for (const [depth, colJobs] of columns)`: the nodes in column insertion order.
RECURSIVE placeNodes(_, _, _, _)
placeNodes(js, st, keys, k) ==
    IF k > Len(keys) THEN <<>>
    ELSE columnNodes(js, st, keys[k]) \o placeNodes(js, st, keys, k + 1)

\* A lookup that answers with the first node whatever the id.
nodeMapGetFirstNode(nodes, nodeId) == nodes[1]

\* nodeMap.get(id): a later node with the same id replaces an earlier one.
nodeMapHas(nodes, nodeId) == \E k \in DOMAIN nodes : nodes[k].id = nodeId
nodeMapGet(nodes, nodeId) ==
    nodes[CHOOSE k \in DOMAIN nodes :
             /\ nodes[k].id = nodeId
             /\ \A m \in DOMAIN nodes : nodes[m].id = nodeId => m <= k]

\* The edges pushed for one node: one per dependency id that nodeMap holds.
RECURSIVE nodeEdges(_, _, _)
nodeEdges(nodes, node, i) ==
    IF i > Len(node.dependencies) THEN <<>>
    ELSE LET depId == node.dependencies[i]
             rest == nodeEdges(nodes, node, i + 1)
         IN IF nodeMapHas(nodes, depId)
            THEN <<[from |-> depId, to |-> node.id,
                    fromNode |-> nodeMapGet(nodes, depId), toNode |-> node]>> \o rest
            ELSE rest

RECURSIVE buildEdges(_, _)
buildEdges(nodes, k) ==
    IF k > Len(nodes) THEN <<>>
    ELSE nodeEdges(nodes, nodes[k], 1) \o buildEdges(nodes, k + 1)

\* maxCol and maxRowInAnyCol, both starting at 0.
maxColOf(nodes) ==
    IF nodes = <<>> THEN 0
    ELSE CHOOSE d \in {nodes[k].depth : k \in DOMAIN nodes} :
             \A k \in DOMAIN nodes : nodes[k].depth <= d
maxRowOf(nodes) ==
    IF nodes = <<>> THEN 0
    ELSE CHOOSE r \in {nodes[k].row : k \in DOMAIN nodes} :
             \A k \in DOMAIN nodes : nodes[k].row <= r

\* layoutGraph(jobs). `threw` is a RangeError from the recursion of getDepth;
\* `revisits` is carried for observation.
layoutGraph(js) ==
    IF Len(js) = 0
    THEN [called |-> TRUE, threw |-> FALSE, nodes |-> <<>>, edges |-> <<>>,
          width |-> 0, height |-> 0, revisits |-> {}]
    ELSE LET st == computeDepths(js, 1, DepthState0)
             nodes == placeNodes(js, st, columnKeys(js, st, 1, <<>>), 1)
             width == PADDING_X * 2 + maxColOf(nodes) * COL_SPACING + NODE_RADIUS * 2
             height == PADDING_Y * 2 + maxRowOf(nodes) * ROW_SPACING + 40
         IN IF st.overflow
            THEN [called |-> TRUE, threw |-> TRUE, nodes |-> <<>>, edges |-> <<>>,
                  width |-> 0, height |-> 0, revisits |-> st.revisits]
            ELSE [called |-> TRUE, threw |-> FALSE, nodes |-> nodes,
                  edges |-> buildEdges(nodes, 1),
                  width |-> Max2(width, 200), height |-> Max2(height, 140),
                  revisits |-> st.revisits]

----------------------------------------------------------------------------
(* Worst-status aggregation *)

\* The longest Workflow[] handed to an aggregator.
MaxWorkflows == 3

WorkflowStatus ==
    {"success", "running", "not_run", "failed", "error", "failing", "on_hold",
     "canceled", "unauthorized"}
JobStatus ==
    {"success", "running", "not_run", "failed", "retried", "queued", "not_running",
     "infrastructure_fail", "timedout", "on_hold", "terminated-unknown", "blocked",
     "canceled", "unauthorized"}
PipelineState == {"created", "errored", "setup-pending", "setup", "pending"}
CIStatus == WorkflowStatus \cup JobStatus \cup PipelineState

Undefined == "undefined"
NotAggregated == [called |-> FALSE]

\* The `priority` array with two neighbours exchanged.
priorityRunningFirst ==
    <<"failed", "error", "running", "failing", "on_hold", "canceled", "not_run",
      "unauthorized", "success">>

\* The `priority` array of aggregateWorkflowStatus.
priority ==
    <<"failed", "error", "failing", "running", "on_hold", "canceled", "not_run",
      "unauthorized", "success">>

\* A test that looks at the first workflow only.
someHasStatusFirstOnly(ws, status) == ws[1] = status

\* workflows.some((w) => w.status === status)
someHasStatus(ws, status) == \E i \in DOMAIN ws : ws[i] = status

\* `for (const status of priority)`, then the fallback workflows[0].status.
RECURSIVE priorityScan(_, _)
priorityScan(ws, i) ==
    IF i > Len(priority) THEN ws[1]
    ELSE IF someHasStatus(ws, priority[i]) THEN priority[i]
    ELSE priorityScan(ws, i + 1)

\* aggregateWorkflowStatus of useCircleCI.ts.
aggregateWorkflowStatus(ws) ==
    IF Len(ws) = 0 THEN Undefined ELSE priorityScan(ws, 1)

\* aggregateWorkflowStatuses of the branch page: the same scan with no test
\* for the empty list, where workflows[0].status raises TypeError.
aggregateWorkflowStatuses(ws) ==
    IF Len(ws) = 0 THEN "TypeError" ELSE priorityScan(ws, 1)

\* PipelineCard: workflows.length > 0 ? aggregateWorkflowStatuses(workflows) : undefined
cardAggregateStatus(ws) ==
    IF Len(ws) > 0 THEN aggregateWorkflowStatuses(ws) ELSE Undefined

\* useAsyncData and the useBranches fetcher before anything is mounted.
\* `data` and `error` while they are null, a page token while it is undefined.
NoData == [null |-> TRUE]
NoError == [null |-> TRUE]
NoToken == <<>>

\* useState initial values: data null, loading true, error null.
HookState0 ==
    /\ data = NoData
    /\ error = NoError
    /\ loading = TRUE
    /\ errorCount = 0
    /\ requests = <<>>
    /\ timers = 0
    /\ actions = <<>>

\* No view is mounted.
HookIdle ==
    /\ HookState0
    /\ mounted = FALSE
    /\ interval = FALSE

FetcherIdle ==
    /\ upstream = <<>>
    /\ pc = "idle"
    /\ page = 0
    /\ pageLog = <<>>
    /\ pageToken = NoToken
    /\ allPipelines = <<>>
    /\ entries = <<>>
    /\ branchCounts = <<>>
    /\ triggeredCount = 0
    /\ batchStart = 0
    /\ inflight = <<>>
    /\ branches = <<>>
    /\ wfIssued = {}
    /\ wfLog = <<>>

\* buildGroups has not been called.
NotGrouped == [called |-> FALSE]
GroupsIdle ==
    /\ triggered = <<>>
    /\ groups = NotGrouped

\* formatDuration has not been called.
NotFormatted == [called |-> FALSE]
DurationIdle ==
    /\ ms = 0
    /\ formatted = NotFormatted

\* computeTimeline has not been called.
NoTimeline == [called |-> FALSE]
TimelineIdle ==
    /\ timedJobs = <<>>
    /\ now = 0
    /\ clockAdvance = 0
    /\ timeline = NoTimeline

\* isActiveStatus has not been called.
NotChecked == [called |-> FALSE]
ActiveIdle ==
    /\ statuses = <<>>
    /\ activity = NotChecked

\* server.js has no request in hand.
NoRequest == [received |-> FALSE]
NotHandled == [handled |-> FALSE]
ProxyIdle ==
    /\ request = NoRequest
    /\ proxied = NotHandled

\* generateGridLines has not been called.
NoGrid == [called |-> FALSE]
GridIdle ==
    /\ gridInput = [totalMs |-> 0, chartWidth |-> [n |-> 0, d |-> 1]]
    /\ gridLines = NoGrid

\* The hooks of the other views are given a fetcher.
PanelIdle == fetcher = TRUE

\* Neither page has summarized a project.
NotCounted == [called |-> FALSE]
CountsIdle ==
    /\ project = [pipelines |-> <<>>, pageSize |-> 1]
    /\ pageCounts = NotCounted

\* No AuthProvider is mounted.
NoAuth == [token |-> "null", projectSlug |-> "null", user |-> "null", client |-> "null"]
AuthIdle ==
    /\ authState = NoAuth
    /\ storage = [token |-> "null", project |-> "null"]
    /\ validation = "none"
    /\ logins = <<>>

MoreIdle == GridIdle /\ PanelIdle /\ CountsIdle /\ AuthIdle

OtherIdle ==
    GroupsIdle /\ DurationIdle /\ TimelineIdle /\ ActiveIdle /\ ProxyIdle /\ MoreIdle

LayoutIdle ==
    /\ jobs = <<>>
    /\ layout = NoLayout

StatusIdle ==
    /\ workflows = <<>>
    /\ aggregate = NotAggregated

InitStatus ==
    /\ \E n \in 0..MaxWorkflows : workflows \in [1..n -> CIStatus]
    /\ aggregate = NotAggregated
    /\ LayoutIdle
    /\ FetcherIdle
    /\ HookIdle
    /\ OtherIdle

\* useBranches / useTriggeredPipelines reduce the fetched workflows.
AggregateInHook ==
    /\ ~aggregate.called
    /\ aggregate' = [called |-> TRUE, by |-> "hook",
                     status |-> aggregateWorkflowStatus(workflows)]
    /\ UNCHANGED <<workflows, layoutVars, fetcherVars, hookVars, otherVars>>

\* A PipelineCard renders its aggregate badge.
AggregateInCard ==
    /\ ~aggregate.called
    /\ aggregate' = [called |-> TRUE, by |-> "card",
                     status |-> cardAggregateStatus(workflows)]
    /\ UNCHANGED <<workflows, layoutVars, fetcherVars, hookVars, otherVars>>

NextStatus == AggregateInHook \/ AggregateInCard

SpecStatus == InitStatus /\ [][NextStatus]_vars

----------------------------------------------------------------------------
(* The branch summarizer: the fetcher of useBranches *)

\* The longest upstream list of the exhaustive family.
MaxPipelines == 3
\* The number of distinct branches of the wide upstream list.
MaxWide == 7
\* The most items the API puts on one page.
MaxPageLen == 2

MAX_PIPELINE_PAGES == 5
batchSize == 6

\* The array of isActiveStatus without its last element.
isActiveStatusWithoutSetup(status) ==
    status \in {"running", "failing", "queued", "not_running", "created", "pending",
                "setup-pending"}

\* isActiveStatus of StatusBadge.
isActiveStatus(status) ==
    status \in {"running", "failing", "queued", "not_running", "created", "pending",
                "setup-pending", "setup"}

\* vcs.branch of a pipeline without a branch.
NoBranch == "undefined"

BranchNames ==
    <<"main", "dev", "feat-a", "feat-b", "feat-c", "feat-d", "feat-e", "feat-f",
      "feat-g", "feat-h">>

\* A Pipeline: its id, vcs.branch and created_at (as a time in ms). The API
\* lists pipelines newest first: pipeline k of n carries the time n - k + 1.
Pipeline(k, n, br) == [id |-> k, branch |-> br, created_at |-> n - k + 1]

PipelineList(brs) == [k \in DOMAIN brs |-> Pipeline(k, Len(brs), brs[k])]

\* The upstream lists: every list of up to MaxPipelines pipelines over no
\* branch, main and dev; and one wide list of MaxWide distinct branches with
\* a branchless pipeline and a second pipeline of the first branch.
SmallBranchChoices == {NoBranch, BranchNames[1], BranchNames[2]}
WideBranches ==
    <<BranchNames[1], NoBranch, BranchNames[1]>>
        \o [k \in 1..(MaxWide - 1) |-> BranchNames[k + 1]]

\* What getWorkflows may answer with, as the statuses of the workflows: any
\* of three answers for the lists of the exhaustive family, one answer for
\* the wide list.
WorkflowResponses == {<<>>, <<"success", "running">>, <<"running", "failed">>}
WorkflowResponsesOf(up) ==
    IF Len(up) > MaxPipelines THEN {<<"success", "running">>} ELSE WorkflowResponses

Pending == [settled |-> FALSE]
NoResult == [returned |-> FALSE]

\* !p.vcs.branch
branchless(p) == p.branch = NoBranch

\* The loop `for (const p of allPipelines)`: branchMap (as its entries in
\* insertion order), branchCounts and triggeredCount.
\* A map that keeps the pipeline seen last for a branch.
keepLast(ents, p) ==
    IF \E e \in Range(ents) : e.name = p.branch
    THEN [k \in DOMAIN ents |->
            IF ents[k].name = p.branch THEN [name |-> p.branch, pipeline |-> p]
            ELSE ents[k]]
    ELSE Append(ents, [name |-> p.branch, pipeline |-> p])

\* if (!branchMap.has(p.vcs.branch)) branchMap.set(p.vcs.branch, p)
keepFirst(ents, p) ==
    IF \E e \in Range(ents) : e.name = p.branch
    THEN ents
    ELSE Append(ents, [name |-> p.branch, pipeline |-> p])

RECURSIVE groupPipelines(_, _, _)
groupPipelines(all, k, g) ==
    IF k > Len(all) THEN g
    ELSE LET p == all[k]
         IN IF branchless(p)
            THEN groupPipelines(all, k + 1,
                                [g EXCEPT !.triggeredCount = @ + 1])
            ELSE groupPipelines(all, k + 1,
                   [g EXCEPT
                      !.counts = (p.branch :>
                                    (IF p.branch \in DOMAIN g.counts
                                     THEN g.counts[p.branch] ELSE 0) + 1) @@ @,
                      !.entries = keepFirst(@, p)])

NoGroups == [entries |-> <<>>, counts |-> <<>>, triggeredCount |-> 0]

\* A parallel map over every entry that is left.
batchOfAllLeft(ents, i) == SubSeq(ents, i + 1, Len(ents))

\* A batch one entry short.
batchOfOffByOne(ents, i) ==
    SubSeq(ents, i + 1, IF i + batchSize - 1 <= Len(ents) THEN i + batchSize - 1 ELSE Len(ents))

\* entries.slice(i, i + batchSize)
batchOf(ents, i) ==
    SubSeq(ents, i + 1, IF i + batchSize <= Len(ents) THEN i + batchSize ELSE Len(ents))

\* A count that leaves out the later pipelines of a branch.
countOfLatestOnly(counts, name) == 1

\* branchCounts.get(name) ?? 1
countOf(counts, name) == IF name \in DOMAIN counts THEN counts[name] ELSE 1

\* The summary the try branch returns.
summaryWithStatus(e, counts, ws) ==
    [name |-> e.name, latestPipeline |-> e.pipeline, hasStatus |-> TRUE,
     latestWorkflowStatus |-> aggregateWorkflowStatus(ws),
     recentPipelineCount |-> countOf(counts, e.name)]

\* The summary the catch branch returns: no latestWorkflowStatus key.
summaryWithoutStatus(e, counts) ==
    [name |-> e.name, latestPipeline |-> e.pipeline, hasStatus |-> FALSE,
     latestWorkflowStatus |-> Undefined,
     recentPipelineCount |-> countOf(counts, e.name)]

\* A rank that tells no branch from another.
activeRankSame(b) == 1

\* a.latestWorkflowStatus && isActiveStatus(a.latestWorkflowStatus) ? 0 : 1
activeRank(b) ==
    IF b.hasStatus /\ b.latestWorkflowStatus # Undefined
                   /\ isActiveStatus(b.latestWorkflowStatus)
    THEN 0 ELSE 1

\* The comparator of branches.sort.
branchCompare(a, b) ==
    IF activeRank(a) # activeRank(b) THEN activeRank(a) - activeRank(b)
    ELSE b.latestPipeline.created_at - a.latestPipeline.created_at

\* branches.sort(...): stable.
RECURSIVE sortBranches(_)
sortBranches(bs) ==
    IF Len(bs) <= 1 THEN bs
    ELSE LET front == sortBranches(SubSeq(bs, 1, Len(bs) - 1))
             x == bs[Len(bs)]
             keep == {i \in DOMAIN front : branchCompare(front[i], x) <= 0}
             n == IF keep = {} THEN 0
                  ELSE CHOOSE i \in keep : \A m \in keep : m <= i
         IN SubSeq(front, 1, n) \o <<x>> \o SubSeq(front, n + 1, Len(front))

\* The fetcher goes on after the paging loop or after a batch: it issues the
\* batch that starts at entry i, or, with no entry left, sorts, returns, and
\* load() stores the result.
Continue(i, acc, ents, trig) ==
    IF i < Len(ents)
    THEN /\ pc' = "batching"
         /\ batchStart' = i
         /\ branches' = acc
         /\ inflight' = [k \in DOMAIN batchOf(ents, i) |-> Pending]
         /\ wfIssued' = wfIssued \cup {batchOf(ents, i)[k].pipeline.id :
                                          k \in DOMAIN batchOf(ents, i)}
         /\ UNCHANGED hookVars
    ELSE /\ pc' = "done"
         /\ batchStart' = i
         /\ branches' = sortBranches(acc)
         /\ inflight' = <<>>
         /\ data' = [branches |-> sortBranches(acc), triggeredCount |-> trig]
         /\ error' = NoError
         /\ loading' = FALSE
         /\ UNCHANGED <<wfIssued, errorCount, requests, viewVars>>

\* The fetcher throws: load() catches, sets the error and clears loading.
Throw ==
    /\ pc' = "failed"
    /\ error' = [message |-> "Error"]
    /\ errorCount' = errorCount + 1
    /\ loading' = FALSE
    /\ UNCHANGED <<data, requests, viewVars>>

\* The cursor a page token stands for.
cursorOf(token) == IF token = NoToken THEN 0 ELSE token[1]

\* A loop without the page bound.
pagesLeftAlways(p) == TRUE

\* `page < MAX_PIPELINE_PAGES` after page++: the loop takes another turn.
pagesLeft(p) == p + 1 < MAX_PIPELINE_PAGES

\* What a page that arrived held: "ok" is a page with items and a
\* next_page_token.
pageKind(k, more) ==
    IF k = 0 THEN "no-items" ELSE IF ~more THEN "no-token" ELSE "ok"

\* client.getPipelines resolves with k items and, when `more`, a next_page_token.
PageArrives(k, more) ==
    /\ pc = "paging"
    /\ cursorOf(pageToken) + k <= Len(upstream)
    /\ LET cur == cursorOf(pageToken)
           items == SubSeq(upstream, cur + 1, cur + k)
           all == allPipelines \o items
           last == (~more) \/ Len(items) = 0 \/ ~pagesLeft(page)
           g == groupPipelines(all, 1, NoGroups)
       IN /\ allPipelines' = all
          /\ IF last
             THEN /\ entries' = g.entries
                  /\ branchCounts' = g.counts
                  /\ triggeredCount' = g.triggeredCount
                  /\ Continue(0, <<>>, g.entries, g.triggeredCount)
                  /\ UNCHANGED <<page, pageToken>>
             ELSE /\ pageToken' = <<cur + k>>
                  /\ page' = page + 1
                  /\ UNCHANGED <<pc, entries, branchCounts, triggeredCount, batchStart,
                                 inflight, branches, wfIssued, hookVars>>
    /\ pageLog' = Append(pageLog, pageKind(k, more))
    /\ UNCHANGED <<upstream, wfLog, layoutVars, statusVars, otherVars>>

\* A page failure that is swallowed: the loop ends with the pages so far.
PageFailsAbsorbed ==
    /\ pc = "paging"
    /\ LET g == groupPipelines(allPipelines, 1, NoGroups)
       IN /\ entries' = g.entries
          /\ branchCounts' = g.counts
          /\ triggeredCount' = g.triggeredCount
          /\ Continue(0, <<>>, g.entries, g.triggeredCount)
    /\ pageLog' = Append(pageLog, "failed")
    /\ UNCHANGED <<upstream, page, pageToken, allPipelines, wfLog, layoutVars, statusVars,
                   otherVars>>

\* client.getPipelines rejects: the await in the paging loop throws.
PageFails ==
    /\ pc = "paging"
    /\ Throw
    /\ pageLog' = Append(pageLog, "failed")
    /\ UNCHANGED <<upstream, page, pageToken, allPipelines, entries, branchCounts,
                   triggeredCount, batchStart, inflight, branches, wfIssued, wfLog,
                   layoutVars, statusVars, otherVars>>

\* The promise of batch position k settles with summary r; with the last one
\* settled Promise.all resolves, the results are pushed and the loop goes on.
Settle(k, r) ==
    LET settled == [inflight EXCEPT ![k] = [settled |-> TRUE, value |-> r]]
    IN IF \A m \in DOMAIN settled : settled[m].settled
       THEN Continue(batchStart + batchSize,
                     branches \o [m \in DOMAIN settled |-> settled[m].value],
                     entries, triggeredCount)
       ELSE /\ inflight' = settled
            /\ UNCHANGED <<pc, batchStart, branches, wfIssued, hookVars>>

\* client.getWorkflows of batch position k resolves with the workflows ws.
WorkflowsArrive(k, ws) ==
    /\ pc = "batching"
    /\ k \in DOMAIN inflight
    /\ ~inflight[k].settled
    /\ ws \in WorkflowResponsesOf(upstream)
    /\ LET e == batchOf(entries, batchStart)[k]
       IN /\ Settle(k, summaryWithStatus(e, branchCounts, ws))
          /\ wfLog' = (e.pipeline.id :> [failed |-> FALSE, workflows |-> ws]) @@ wfLog
    /\ UNCHANGED <<upstream, page, pageLog, pageToken, allPipelines, entries,
                   branchCounts, triggeredCount, layoutVars, statusVars, otherVars>>

\* A getWorkflows failure that is not caught: Promise.all rejects, the fetcher throws.
WorkflowsFailUncaught(k) ==
    /\ pc = "batching"
    /\ k \in DOMAIN inflight
    /\ ~inflight[k].settled
    /\ Throw
    /\ wfLog' = (batchOf(entries, batchStart)[k].pipeline.id :>
                    [failed |-> TRUE, workflows |-> <<>>]) @@ wfLog
    /\ UNCHANGED <<upstream, page, pageLog, pageToken, allPipelines, entries,
                   branchCounts, triggeredCount, batchStart, inflight, branches,
                   wfIssued, layoutVars, statusVars, otherVars>>

\* client.getWorkflows of batch position k rejects: the catch branch runs.
WorkflowsFail(k) ==
    /\ pc = "batching"
    /\ k \in DOMAIN inflight
    /\ ~inflight[k].settled
    /\ LET e == batchOf(entries, batchStart)[k]
       IN /\ Settle(k, summaryWithoutStatus(e, branchCounts))
          /\ wfLog' = (e.pipeline.id :> [failed |-> TRUE, workflows |-> <<>>]) @@ wfLog
    /\ UNCHANGED <<upstream, page, pageLog, pageToken, allPipelines, entries,
                   branchCounts, triggeredCount, layoutVars, statusVars, otherVars>>

\* The Branches page mounts: load() calls the fetcher, which requests page 0.
InitBranches ==
    /\ \/ \E n \in 0..MaxPipelines :
             \E brs \in [1..n -> SmallBranchChoices] : upstream = PipelineList(brs)
       \/ upstream = PipelineList(WideBranches)
    /\ pc = "paging"
    /\ page = 0
    /\ pageLog = <<>>
    /\ pageToken = NoToken
    /\ allPipelines = <<>>
    /\ entries = <<>>
    /\ branchCounts = <<>>
    /\ triggeredCount = 0
    /\ batchStart = 0
    /\ inflight = <<>>
    /\ branches = <<>>
    /\ wfIssued = {}
    /\ wfLog = <<>>
    /\ HookState0
    /\ mounted = TRUE
    /\ interval = TRUE
    /\ LayoutIdle
    /\ StatusIdle
    /\ OtherIdle

NextBranches ==
    \/ \E k \in 0..MaxPageLen, more \in BOOLEAN : PageArrives(k, more)
    \/ PageFails
    \/ \E k \in 1..batchSize, ws \in WorkflowResponses : WorkflowsArrive(k, ws)
    \/ \E k \in 1..batchSize : WorkflowsFail(k)

SpecBranches == InitBranches /\ [][NextBranches]_vars

----------------------------------------------------------------------------
(* The triggered-pipelines fan-out: the fetcher of useTriggeredPipelines *)

\* vcs.tag of a pipeline without a tag.
NoTag == ""

\* trigger.type of the pipelines of the upstream list, in turn.
TriggerTypes == <<"api", "schedule", "webhook", "scheduled_pipeline", "", "manual">>

\* The upstream list of the Triggers page: one pipeline of branch main, then
\* MaxWide branchless pipelines, every third of them tagged.
TriggeredUpstream ==
    [k \in 1..(MaxWide + 1) |->
        [id |-> k,
         branch |-> IF k = 1 THEN BranchNames[1] ELSE NoBranch,
         created_at |-> MaxWide + 2 - k,
         tag |-> IF k % 3 = 0 THEN "abc" ELSE NoTag,
         triggerType |-> TriggerTypes[(k % Len(TriggerTypes)) + 1]]]

\* deriveTriggerLabel(pipeline)
deriveTriggerLabel(p) ==
    IF p.tag # NoTag THEN "tag: " \o p.tag
    ELSE IF p.triggerType \in {"schedule", "scheduled_pipeline"} THEN "Scheduled"
    ELSE IF p.triggerType = "api" THEN "API"
    ELSE IF p.triggerType = "webhook" THEN "Webhook"
    ELSE IF p.triggerType # "" THEN p.triggerType
    ELSE "Trigger"

\* pipelines.filter((p) => !p.vcs.branch), as entries of the fan-out.
branchlessEntries(ps) ==
    LET kept == SelectSeq(ps, branchless)
    IN [k \in DOMAIN kept |-> [name |-> NoBranch, pipeline |-> kept[k]]]

\* The mapper's result; workflowStatus stays undefined when getWorkflows
\* rejected.
triggeredResult(e, st) ==
    [pipeline |-> e.pipeline, workflowStatus |-> st,
     triggerLabel |-> deriveTriggerLabel(e.pipeline)]

\* The fetcher goes on after the filter or after a batch: it issues the batch
\* that starts at i, or returns the results (held in `branches` until then)
\* and load() stores them.
ContinueTriggered(i, acc, ents) ==
    IF i < Len(ents)
    THEN /\ pc' = "batching-triggered"
         /\ batchStart' = i
         /\ branches' = acc
         /\ inflight' = [k \in DOMAIN batchOf(ents, i) |-> Pending]
         /\ wfIssued' = wfIssued \cup {batchOf(ents, i)[k].pipeline.id :
                                          k \in DOMAIN batchOf(ents, i)}
         /\ UNCHANGED hookVars
    ELSE /\ pc' = "done"
         /\ batchStart' = i
         /\ branches' = acc
         /\ inflight' = <<>>
         /\ data' = [triggered |-> acc]
         /\ error' = NoError
         /\ loading' = FALSE
         /\ UNCHANGED <<wfIssued, errorCount, requests, viewVars>>

\* client.getPipelines(projectSlug) resolves with the first k pipelines.
TriggeredPageArrives(k) ==
    /\ pc = "fetching-triggered"
    /\ k <= Len(upstream)
    /\ allPipelines' = SubSeq(upstream, 1, k)
    /\ entries' = branchlessEntries(SubSeq(upstream, 1, k))
    /\ pageLog' = Append(pageLog, "ok")
    /\ ContinueTriggered(0, <<>>, branchlessEntries(SubSeq(upstream, 1, k)))
    /\ UNCHANGED <<upstream, page, pageToken, branchCounts, triggeredCount, wfLog,
                   layoutVars, statusVars, otherVars>>

\* client.getPipelines(projectSlug) rejects.
TriggeredPageFails ==
    /\ pc = "fetching-triggered"
    /\ Throw
    /\ pageLog' = Append(pageLog, "failed")
    /\ UNCHANGED <<upstream, page, pageToken, allPipelines, entries, branchCounts,
                   triggeredCount, batchStart, inflight, branches, wfIssued, wfLog,
                   layoutVars, statusVars, otherVars>>

\* The promise of batch position k settles with result r.
SettleTriggered(k, r) ==
    LET settled == [inflight EXCEPT ![k] = [settled |-> TRUE, value |-> r]]
    IN IF \A m \in DOMAIN settled : settled[m].settled
       THEN ContinueTriggered(batchStart + batchSize,
                              branches \o [m \in DOMAIN settled |-> settled[m].value],
                              entries)
       ELSE /\ inflight' = settled
            /\ UNCHANGED <<pc, batchStart, branches, wfIssued, hookVars>>

\* client.getWorkflows of batch position k resolves with the workflows ws.
TriggeredWorkflowsArrive(k, ws) ==
    /\ pc = "batching-triggered"
    /\ k \in DOMAIN inflight
    /\ ~inflight[k].settled
    /\ ws \in WorkflowResponsesOf(upstream)
    /\ LET e == batchOf(entries, batchStart)[k]
       IN /\ SettleTriggered(k, triggeredResult(e, aggregateWorkflowStatus(ws)))
          /\ wfLog' = (e.pipeline.id :> [failed |-> FALSE, workflows |-> ws]) @@ wfLog
    /\ UNCHANGED <<upstream, page, pageLog, pageToken, allPipelines, entries,
                   branchCounts, triggeredCount, layoutVars, statusVars, otherVars>>

\* client.getWorkflows of batch position k rejects: the catch ignores it.
TriggeredWorkflowsFail(k) ==
    /\ pc = "batching-triggered"
    /\ k \in DOMAIN inflight
    /\ ~inflight[k].settled
    /\ LET e == batchOf(entries, batchStart)[k]
       IN /\ SettleTriggered(k, triggeredResult(e, Undefined))
          /\ wfLog' = (e.pipeline.id :> [failed |-> TRUE, workflows |-> <<>>]) @@ wfLog
    /\ UNCHANGED <<upstream, page, pageLog, pageToken, allPipelines, entries,
                   branchCounts, triggeredCount, layoutVars, statusVars, otherVars>>

\* The Triggers page mounts: load() calls the fetcher, which requests the
\* pipelines.
InitTriggered ==
    /\ upstream = TriggeredUpstream
    /\ pc = "fetching-triggered"
    /\ page = 0
    /\ pageLog = <<>>
    /\ pageToken = NoToken
    /\ allPipelines = <<>>
    /\ entries = <<>>
    /\ branchCounts = <<>>
    /\ triggeredCount = 0
    /\ batchStart = 0
    /\ inflight = <<>>
    /\ branches = <<>>
    /\ wfIssued = {}
    /\ wfLog = <<>>
    /\ HookState0
    /\ mounted = TRUE
    /\ interval = TRUE
    /\ LayoutIdle
    /\ StatusIdle
    /\ OtherIdle

NextTriggered ==
    \/ \E k \in 0..(MaxWide + 1) : TriggeredPageArrives(k)
    \/ TriggeredPageFails
    \/ \E k \in 1..batchSize, ws \in WorkflowResponses : TriggeredWorkflowsArrive(k, ws)
    \/ \E k \in 1..batchSize : TriggeredWorkflowsFail(k)

\* Both fan-outs: the Branches page or the Triggers page is mounted.
InitFanOut == InitBranches \/ InitTriggered

NextFanOut == NextBranches \/ NextTriggered

SpecFanOut == InitFanOut /\ [][NextFanOut]_vars

----------------------------------------------------------------------------
(* The Branches page and the Triggers page over one project *)

\* The page of `size` pipelines that starts after the cursor cur.
pageAt(ps, size, cur) ==
    SubSeq(ps, cur + 1, IF cur + size <= Len(ps) THEN cur + size ELSE Len(ps))

\* allPipelines after the paging loop of useBranches; the API hands out a
\* next_page_token while pipelines are left.
RECURSIVE fetchPages(_, _, _, _)
fetchPages(ps, size, cur, p) ==
    IF cur + size >= Len(ps) \/ Len(pageAt(ps, size, cur)) = 0 \/ ~pagesLeft(p)
    THEN pageAt(ps, size, cur)
    ELSE pageAt(ps, size, cur) \o fetchPages(ps, size, cur + size, p + 1)

\* triggeredCount of the result of useBranches.
branchesTriggeredCount(ps, size) ==
    groupPipelines(fetchPages(ps, size, 0, 0), 1, NoGroups).triggeredCount

\* The list useTriggeredPipelines returns holds one item per branchless
\* pipeline of the one page it requests.
triggeredPipelinesLength(ps, size) == Len(branchlessEntries(pageAt(ps, size, 0)))

InitCounts ==
    /\ \E n \in 0..MaxPipelines, size \in 1..MaxPageLen :
          \E brs \in [1..n -> SmallBranchChoices] :
             project = [pipelines |-> PipelineList(brs), pageSize |-> size]
    /\ pageCounts = NotCounted
    /\ LayoutIdle
    /\ StatusIdle
    /\ FetcherIdle
    /\ HookIdle
    /\ GroupsIdle
    /\ DurationIdle
    /\ TimelineIdle
    /\ ActiveIdle
    /\ ProxyIdle
    /\ GridIdle
    /\ PanelIdle
    /\ AuthIdle

\* The Branches page loads, the user follows its link and the Triggers page
\* loads.
LoadBothPages ==
    /\ ~pageCounts.called
    /\ pageCounts' = [called |-> TRUE,
                  triggeredCount |->
                      branchesTriggeredCount(project.pipelines, project.pageSize),
                  triggered |->
                      triggeredPipelinesLength(project.pipelines, project.pageSize)]
    /\ UNCHANGED <<project, layoutVars, statusVars, fetcherVars, hookVars, groupVars,
                   durationVars, timelineVars, activeVars, proxyVars, gridVars,
                   panelVars, authVars>>

NextCounts == LoadBothPages

SpecCounts == InitCounts /\ [][NextCounts]_vars

----------------------------------------------------------------------------
(* AuthProvider: the saved token and login() *)

\* The most login() calls of one run.
MaxLogins == 2

\* Tokens: the one found in localStorage on mount and those typed in Setup.
SavedToken == "saved"
TypedTokens == {"typed", "retyped"}
Slug == "gh/org/repo"

\* A value of localStorage or of the state that is null.
Null == "null"

\* new CircleCIClient(token), told apart by its token; getMe() of a client
\* resolves with the user of that token.
clientOf(token) == IF token = Null THEN Null ELSE token
userOf(token) == token

\* const isAuthenticated = !!token && !!projectSlug (AppRoutes): the routes
\* show Setup when it is false and the pages, with logout, when it is true.
isAuthenticated == authState.token # Null /\ authState.projectSlug # Null

\* AuthProvider mounts: the state is read from localStorage, which holds
\* what login(), logout() or a rejected validation left there, and the effect
\* calls getMe() when a token was saved.
InitAuth ==
    /\ storage \in {[token |-> Null, project |-> Null],
                    [token |-> Null, project |-> Slug],
                    [token |-> SavedToken, project |-> Slug]}
    /\ authState = [token |-> storage.token, projectSlug |-> storage.project,
                    user |-> Null, client |-> clientOf(storage.token)]
    /\ validation = IF storage.token # Null THEN "inflight" ELSE "none"
    /\ logins = <<>>
    /\ LayoutIdle
    /\ StatusIdle
    /\ FetcherIdle
    /\ HookIdle
    /\ GroupsIdle
    /\ DurationIdle
    /\ TimelineIdle
    /\ ActiveIdle
    /\ ProxyIdle
    /\ GridIdle
    /\ PanelIdle
    /\ CountsIdle

\* What the AuthProvider leaves alone.
authRest == <<layoutVars, statusVars, fetcherVars, hookVars, groupVars, durationVars,
              timelineVars, activeVars, proxyVars, gridVars, panelVars, countVars>>

\* getMe() of the mount effect resolves: setState((s) => ({ ...s, user })).
validationResolves ==
    /\ validation = "inflight"
    /\ validation' = "resolved"
    /\ authState' = [authState EXCEPT !.user = userOf(SavedToken)]
    /\ UNCHANGED <<storage, logins, authRest>>

\* getMe() of the mount effect rejects: the token is removed from
\* localStorage and the state is cleared.
validationRejects ==
    /\ validation = "inflight"
    /\ validation' = "rejected"
    /\ storage' = [storage EXCEPT !.token = Null]
    /\ authState' = NoAuth
    /\ UNCHANGED <<logins, authRest>>

\* Setup submits: login(token, projectSlug) is called and awaits getMe().
login(token) ==
    /\ ~isAuthenticated
    /\ Len(logins) < MaxLogins
    /\ \A k \in DOMAIN logins : logins[k].state # "inflight"
    /\ logins' = Append(logins, [token |-> token, state |-> "inflight"])
    /\ UNCHANGED <<authState, storage, validation, authRest>>

\* getMe() and getProject() of login call k have resolved: the token and the
\* slug are stored and the state is set.
loginCompletes(k) ==
    /\ k \in DOMAIN logins
    /\ logins[k].state = "inflight"
    /\ logins' = [logins EXCEPT ![k].state = "done"]
    /\ storage' = [token |-> logins[k].token, project |-> Slug]
    /\ authState' = [token |-> logins[k].token, projectSlug |-> Slug,
                     user |-> userOf(logins[k].token),
                     client |-> clientOf(logins[k].token)]
    /\ UNCHANGED <<validation, authRest>>

\* getMe() or getProject() of login call k rejects: login throws, nothing is
\* stored.
loginFails(k) ==
    /\ k \in DOMAIN logins
    /\ logins[k].state = "inflight"
    /\ logins' = [logins EXCEPT ![k].state = "failed"]
    /\ UNCHANGED <<authState, storage, validation, authRest>>

\* logout()
logout ==
    /\ isAuthenticated
    /\ storage' = [token |-> Null, project |-> Null]
    /\ authState' = NoAuth
    /\ UNCHANGED <<validation, logins, authRest>>

NextAuth ==
    \/ validationResolves
    \/ validationRejects
    \/ \E token \in TypedTokens : login(token)
    \/ \E k \in 1..MaxLogins : loginCompletes(k)
    \/ \E k \in 1..MaxLogins : loginFails(k)
    \/ logout

SpecAuth == InitAuth /\ [][NextAuth]_vars

----------------------------------------------------------------------------
(* useAsyncData with loads that overlap *)

\* The most load() calls of one run.
MaxLoads == 3
\* The most rerun/cancel actions of one run.
MaxActions == 1

\* load() is called: the fetcher's promise is pending.
issue(kind) == Append(requests, [kind |-> kind, state |-> "inflight"])

\* The view is mounted with a fetcher and pollWhenActive (WorkflowDetail with
\* useJobs): the effect has run setLoading(true), setData(null),
\* setError(null), load() and has set the interval.
InitHook ==
    /\ data = NoData
    /\ error = NoError
    /\ loading = TRUE
    /\ errorCount = 0
    /\ requests = <<[kind |-> "effect", state |-> "inflight"]>>
    /\ mounted = TRUE
    /\ interval = TRUE
    /\ timers = 0
    /\ actions = <<>>
    /\ FetcherIdle
    /\ LayoutIdle
    /\ StatusIdle
    /\ OtherIdle

\* The interval fires: setInterval(load, POLL_INTERVAL).
PollTick ==
    /\ interval
    /\ Len(requests) < MaxLoads
    /\ requests' = issue("poll")
    /\ UNCHANGED <<data, error, loading, errorCount, viewVars, fetcherVars, layoutVars,
                   statusVars, otherVars>>

\* refetch(): setLoading(true); load().
refetch ==
    /\ mounted
    /\ Len(requests) < MaxLoads
    /\ loading' = TRUE
    /\ requests' = issue("refetch")
    /\ UNCHANGED <<data, error, errorCount, viewVars, fetcherVars, layoutVars, statusVars,
                   otherVars>>

\* The dependencies change: the cleanup clears the interval, the effect runs
\* again and sets a new one.
DepsChange ==
    /\ mounted
    /\ Len(requests) < MaxLoads
    /\ loading' = TRUE
    /\ data' = NoData
    /\ error' = NoError
    /\ requests' = issue("effect")
    /\ interval' = TRUE
    /\ UNCHANGED <<errorCount, mounted, timers, actions, fetcherVars, layoutVars,
                   statusVars, otherVars>>

\* The fetcher of load() call k resolves with data in which some entity is
\* active or none is: setData(result); setError(null); setLoading(false).
\* The setters of an unmounted component do nothing.
loadResolves(k, active) ==
    /\ k \in DOMAIN requests
    /\ requests[k].state = "inflight"
    /\ requests' = [requests EXCEPT ![k].state = "resolved"]
    /\ IF mounted
       THEN /\ data' = [from |-> k, active |-> active]
            /\ error' = NoError
            /\ loading' = FALSE
       ELSE UNCHANGED <<data, error, loading>>
    /\ UNCHANGED <<errorCount, viewVars, fetcherVars, layoutVars, statusVars, otherVars>>

\* The fetcher of load() call k rejects: setError(message); setLoading(false).
loadRejects(k) ==
    /\ k \in DOMAIN requests
    /\ requests[k].state = "inflight"
    /\ requests' = [requests EXCEPT ![k].state = "rejected"]
    /\ IF mounted
       THEN /\ error' = [message |-> "Error", from |-> k]
            /\ errorCount' = errorCount + 1
            /\ loading' = FALSE
       ELSE UNCHANGED <<error, errorCount, loading>>
    /\ UNCHANGED <<data, viewVars, fetcherVars, layoutVars, statusVars, otherVars>>

\* handleRerun / handleCancel: the action request is sent.
handleAction(kind) ==
    /\ mounted
    /\ Len(actions) < MaxActions
    /\ actions' = Append(actions, [kind |-> kind, state |-> "inflight"])
    /\ UNCHANGED <<data, error, loading, errorCount, requests, mounted, interval, timers,
                   fetcherVars, layoutVars, statusVars, otherVars>>

\* The action request k resolves: setTimeout(refetch, 1500).
actionResolves(k) ==
    /\ k \in DOMAIN actions
    /\ actions[k].state = "inflight"
    /\ actions' = [actions EXCEPT ![k].state = "resolved"]
    /\ timers' = timers + 1
    /\ UNCHANGED <<data, error, loading, errorCount, requests, mounted, interval,
                   fetcherVars, layoutVars, statusVars, otherVars>>

\* The action request k rejects: setActionError, no timer.
actionRejects(k) ==
    /\ k \in DOMAIN actions
    /\ actions[k].state = "inflight"
    /\ actions' = [actions EXCEPT ![k].state = "rejected"]
    /\ UNCHANGED <<data, error, loading, errorCount, requests, mounted, interval, timers,
                   fetcherVars, layoutVars, statusVars, otherVars>>

\* A setTimeout(refetch, 1500) timer fires: refetch() runs setLoading(true)
\* and load(). Nothing clears the timer.
TimerFires ==
    /\ timers > 0
    /\ Len(requests) < MaxLoads
    /\ timers' = timers - 1
    /\ loading' = IF mounted THEN TRUE ELSE loading
    /\ requests' = issue("delayed")
    /\ UNCHANGED <<data, error, errorCount, mounted, interval, actions, fetcherVars,
                   layoutVars, statusVars, otherVars>>

\* The view unmounts: the effect cleanup clears the interval.
Unmount ==
    /\ mounted
    /\ mounted' = FALSE
    /\ interval' = FALSE
    /\ UNCHANGED <<data, error, loading, errorCount, requests, timers, actions,
                   fetcherVars, layoutVars, statusVars, otherVars>>

NextHook ==
    \/ PollTick
    \/ refetch
    \/ DepsChange
    \/ \E k \in 1..MaxLoads, active \in BOOLEAN : loadResolves(k, active)
    \/ \E k \in 1..MaxLoads : loadRejects(k)
    \/ \E kind \in {"rerun", "cancel"} : handleAction(kind)
    \/ \E k \in 1..MaxActions : actionResolves(k)
    \/ \E k \in 1..MaxActions : actionRejects(k)
    \/ TimerFires
    \/ Unmount

SpecHook == InitHook /\ [][NextHook]_vars

----------------------------------------------------------------------------
(* useAsyncData in the JobPanel: useJobDetail, whose fetcher may be null *)

\* useJobDetail(job.job_number ?? null) hands useAsyncData the fetcher when
\* client, projectSlug and jobNumber are all set and null otherwise, and no
\* pollWhenActive. The effect has run: setLoading(true), setData(null),
\* setError(null), load(); load() returns at once when the fetcher is null.
effectLoad(f) == IF f THEN issue("effect") ELSE requests

InitJobPanel ==
    /\ fetcher \in BOOLEAN
    /\ data = NoData
    /\ error = NoError
    /\ loading = TRUE
    /\ errorCount = 0
    /\ requests = IF fetcher THEN <<[kind |-> "effect", state |-> "inflight"]>> ELSE <<>>
    /\ mounted = TRUE
    /\ interval = FALSE
    /\ timers = 0
    /\ actions = <<>>
    /\ FetcherIdle
    /\ LayoutIdle
    /\ StatusIdle
    /\ GroupsIdle
    /\ DurationIdle
    /\ TimelineIdle
    /\ ActiveIdle
    /\ ProxyIdle
    /\ GridIdle
    /\ CountsIdle
    /\ AuthIdle

\* Another job is selected, or the client or project changes: the deps of the
\* effect change and it runs again with the fetcher of the new render.
JobChanges(f) ==
    /\ mounted
    /\ Len(requests) < MaxLoads
    /\ fetcher' = f
    /\ loading' = TRUE
    /\ data' = NoData
    /\ error' = NoError
    /\ requests' = effectLoad(f)
    /\ UNCHANGED <<errorCount, viewVars, fetcherVars, layoutVars, statusVars, groupVars,
                   durationVars, timelineVars, activeVars, proxyVars, gridVars,
                   countVars, authVars>>

\* Every fetch that load() awaits settles.
FetchSettles(k) == (\E active \in BOOLEAN : loadResolves(k, active)) \/ loadRejects(k)

NextJobPanel ==
    \/ \E f \in BOOLEAN : JobChanges(f)
    \/ \E k \in 1..MaxLoads, active \in BOOLEAN : loadResolves(k, active)
    \/ \E k \in 1..MaxLoads : loadRejects(k)
    \/ Unmount

SpecJobPanel ==
    /\ InitJobPanel
    /\ [][NextJobPanel]_vars
    /\ \A k \in 1..MaxLoads : WF_vars(FetchSettles(k))

----------------------------------------------------------------------------
(* The Triggers page: buildGroups *)

\* The longest TriggeredPipeline[] handed to buildGroups.
MaxItems == 3

\* Tags and revisions; one tag reads like a revision.
Tags == {NoTag, "abc"}
Revisions == {"abc", "def"}

\* workflowStatus of a TriggeredPipeline: undefined, two statuses of the
\* priority order, one outside of it.
ItemStatuses == {Undefined, "failed", "success", "queued"}

\* A TriggeredPipeline: the pipeline's id, vcs.tag, vcs.revision, created_at
\* (as a time in ms) and the workflowStatus.
TriggeredPipeline(k, tag, rev, at, st) ==
    [id |-> k, tag |-> tag, revision |-> rev, created_at |-> at, workflowStatus |-> st]

\* A group key that leaves the prefix out.
groupKeyNoPrefix(t) == IF t.tag # NoTag THEN t.tag ELSE t.revision

\* key = pipeline.vcs.tag ? `tag:${tag}` : `sha:${revision}`
groupKey(t) == IF t.tag # NoTag THEN "tag:" \o t.tag ELSE "sha:" \o t.revision

\* The `STATUS_PRIORITY` array of the Triggers page.
STATUS_PRIORITY ==
    <<"failed", "error", "failing", "running", "on_hold", "canceled", "not_run",
      "unauthorized", "success">>

\* STATUS_PRIORITY.indexOf(st): the 0-based position, -1 when absent.
indexOf(st) ==
    IF \E i \in DOMAIN STATUS_PRIORITY : STATUS_PRIORITY[i] = st
    THEN (CHOOSE i \in DOMAIN STATUS_PRIORITY : STATUS_PRIORITY[i] = st) - 1
    ELSE -1

\* pickWorstStatus(a, b)
pickWorstStatus(a, b) == IF indexOf(a) <= indexOf(b) THEN a ELSE b

\* The position of the group with the key in groupMap, 0 when there is none.
groupIndex(gm, key) ==
    IF \E i \in DOMAIN gm : gm[i].key = key
    THEN CHOOSE i \in DOMAIN gm : gm[i].key = key
    ELSE 0

\* One turn of `for (const t of items)`. The display fields label and
\* sublabel of a group are left out.
addToGroup(gm, t) ==
    LET key == groupKey(t)
        gm1 == IF groupIndex(gm, key) = 0
               THEN Append(gm, [key |-> key, items |-> <<>>,
                                latestCreatedAt |-> t.created_at,
                                worstStatus |-> Undefined])
               ELSE gm
        i == groupIndex(gm1, key)
        g == gm1[i]
    IN [gm1 EXCEPT ![i] =
          [key |-> g.key,
           items |-> Append(g.items, t),
           latestCreatedAt |-> IF t.created_at > g.latestCreatedAt
                               THEN t.created_at ELSE g.latestCreatedAt,
           worstStatus |-> IF t.workflowStatus # Undefined
                           THEN IF g.worstStatus # Undefined
                                THEN pickWorstStatus(g.worstStatus, t.workflowStatus)
                                ELSE t.workflowStatus
                           ELSE g.worstStatus]]

RECURSIVE groupLoop(_, _, _)
groupLoop(its, k, gm) ==
    IF k > Len(its) THEN gm ELSE groupLoop(its, k + 1, addToGroup(gm, its[k]))

\* groups.sort(...): by latestCreatedAt, newest first, stable.
RECURSIVE sortGroups(_)
sortGroups(gs) ==
    IF Len(gs) <= 1 THEN gs
    ELSE LET front == sortGroups(SubSeq(gs, 1, Len(gs) - 1))
             x == gs[Len(gs)]
             keep == {i \in DOMAIN front : front[i].latestCreatedAt >= x.latestCreatedAt}
             n == IF keep = {} THEN 0 ELSE CHOOSE i \in keep : \A m \in keep : m <= i
         IN SubSeq(front, 1, n) \o <<x>> \o SubSeq(front, n + 1, Len(front))

\* group.items.sort(...): by created_at, newest first, stable.
RECURSIVE sortItems(_)
sortItems(its) ==
    IF Len(its) <= 1 THEN its
    ELSE LET front == sortItems(SubSeq(its, 1, Len(its) - 1))
             x == its[Len(its)]
             keep == {i \in DOMAIN front : front[i].created_at >= x.created_at}
             n == IF keep = {} THEN 0 ELSE CHOOSE i \in keep : \A m \in keep : m <= i
         IN SubSeq(front, 1, n) \o <<x>> \o SubSeq(front, n + 1, Len(front))

\* buildGroups(items)
buildGroups(its) ==
    LET sorted == sortGroups(groupLoop(its, 1, <<>>))
    IN [i \in DOMAIN sorted |-> [sorted[i] EXCEPT !.items = sortItems(@)]]

\* The page holds a list of triggered pipelines, listed newest first or
\* oldest first.
InitGroups ==
    /\ \E n \in 0..MaxItems :
          \E tg \in [1..n -> Tags], rv \in [1..n -> Revisions],
             st \in [1..n -> ItemStatuses], newestFirst \in BOOLEAN :
             triggered = [k \in 1..n |->
                            TriggeredPipeline(k, tg[k], rv[k],
                                              IF newestFirst THEN n - k + 1 ELSE k,
                                              st[k])]
    /\ groups = NotGrouped
    /\ LayoutIdle
    /\ StatusIdle
    /\ FetcherIdle
    /\ HookIdle
    /\ DurationIdle
    /\ TimelineIdle
    /\ ActiveIdle
    /\ ProxyIdle
    /\ MoreIdle

\* useMemo(() => buildGroups(filtered))
BuildGroups ==
    /\ ~groups.called
    /\ groups' = [called |-> TRUE, list |-> buildGroups(triggered)]
    /\ UNCHANGED <<triggered, layoutVars, statusVars, fetcherVars, hookVars, durationVars,
                   timelineVars, activeVars, proxyVars,
                   moreVars>>

NextGroups == BuildGroups

SpecGroups == InitGroups /\ [][NextGroups]_vars

----------------------------------------------------------------------------
(* formatDuration *)

\* The durations tried: every half second up to MaxTicks half seconds, some
\* negative ones, and the values around the minute and the hour.
MaxTicks == 150
DurationInputs ==
    {k * 500 : k \in 0..MaxTicks} \cup {0 - k : k \in 1..5}
        \cup {999, 1000, 59999, 60000, 3599999, 3600000, 3700000, 7325999, 86400000}

\* The placeholder formatDuration returns for a negative duration: the
\* em-dash, U+2014, written here in ASCII.
EmDash == "--"

\* Seconds that are rounded to the nearest.
secondsRounded(n) == (n + 500) \div 1000

\* Math.floor(ms / 1000)
secondsFloor(n) == n \div 1000

\* formatDuration(ms)
formatDuration(n) ==
    IF n < 0 THEN EmDash
    ELSE LET totalSeconds == secondsFloor(n)
             hours == totalSeconds \div 3600
             minutes == (totalSeconds % 3600) \div 60
             seconds == totalSeconds % 60
         IN IF hours > 0 THEN ToString(hours) \o "h " \o ToString(minutes) \o "m"
            ELSE IF minutes > 0
                 THEN ToString(minutes) \o "m " \o ToString(seconds) \o "s"
                 ELSE ToString(seconds) \o "s"

InitDuration ==
    /\ ms \in DurationInputs
    /\ formatted = NotFormatted
    /\ LayoutIdle
    /\ StatusIdle
    /\ FetcherIdle
    /\ HookIdle
    /\ GroupsIdle
    /\ TimelineIdle
    /\ ActiveIdle
    /\ ProxyIdle
    /\ MoreIdle

FormatDuration ==
    /\ ~formatted.called
    /\ formatted' = [called |-> TRUE, text |-> formatDuration(ms)]
    /\ UNCHANGED <<ms, layoutVars, statusVars, fetcherVars, hookVars, groupVars,
                   timelineVars, activeVars, proxyVars,
                   moreVars>>

NextDuration == FormatDuration

SpecDuration == InitDuration /\ [][NextDuration]_vars

----------------------------------------------------------------------------
(* The job timeline: computeTimeline *)

\* The most jobs handed to computeTimeline.
MaxTimelineJobs == 2

\* started_at / stopped_at of a job that has none.
NoTime == -1

\* The times, in ms, of started_at, stopped_at and Date.now().
TimePoints == {0, 500, 1000, 30000}

\* A number of the computation: the quotient n / d in lowest terms with
\* d > 0; d = 0 stands for what a division by zero gives (Infinity or NaN).
Abs(x) == IF x < 0 THEN 0 - x ELSE x

RECURSIVE GCD(_, _)
GCD(a, b) == IF b = 0 THEN a ELSE GCD(b, a % b)

Rat(n, d) ==
    IF d = 0 THEN [n |-> n, d |-> 0]
    ELSE LET g == GCD(Abs(n), Abs(d))
             sgn == IF d < 0 THEN -1 ELSE 1
         IN [n |-> sgn * (n \div g), d |-> sgn * (d \div g)]

Whole(x) == [n |-> x, d |-> 1]
RatMul(a, b) == Rat(a.n * b.n, a.d * b.d)
RatLess(a, b) == a.n * b.d < b.n * a.d
RatMax(a, b) == IF RatLess(a, b) THEN b ELSE a
RatMin(a, b) == IF RatLess(b, a) THEN b ELSE a
IsFinite(a) == a.d # 0

\* A test that lets every total through.
totalAny(total) == TRUE

\* totalDurationMs > 0
totalPositive(total) == total > 0

\* The ms by which Date.now() may have advanced between the pass that reads
\* the end times and the pass that builds the bars.
ClockAdvances == {0, 1}

\* endTimes: job.stopped_at ? new Date(job.stopped_at).getTime() : Date.now()
endOf(job) == IF job.stopped_at # NoTime THEN job.stopped_at ELSE now

\* jobEnd of the bar: the same expression, evaluated again when the bar is
\* built.
jobEnd(job) == IF job.stopped_at # NoTime THEN job.stopped_at ELSE now + clockAdvance

\* jobs.filter((j) => j.started_at)
timed(js) == SelectSeq(js, LAMBDA j : j.started_at # NoTime)

\* [...timedJobs].sort(...): by started_at, earliest first, stable.
RECURSIVE sortByStart(_)
sortByStart(js) ==
    IF Len(js) <= 1 THEN js
    ELSE LET front == sortByStart(SubSeq(js, 1, Len(js) - 1))
             x == js[Len(js)]
             keep == {i \in DOMAIN front : front[i].started_at <= x.started_at}
             n == IF keep = {} THEN 0 ELSE CHOOSE i \in keep : \A m \in keep : m <= i
         IN SubSeq(front, 1, n) \o <<x>> \o SubSeq(front, n + 1, Len(front))

\* Math.min(...startTimes) and Math.max(...endTimes)
minStart(js) ==
    CHOOSE t \in {js[k].started_at : k \in DOMAIN js} :
        \A k \in DOMAIN js : t <= js[k].started_at
maxEnd(js) ==
    CHOOSE t \in {endOf(js[k]) : k \in DOMAIN js} :
        \A k \in DOMAIN js : endOf(js[k]) <= t

\* The bar of one job.
barOf(job, globalStart, totalDurationMs, chartWidth) ==
    LET jobStart == job.started_at
        jobDuration == jobEnd(job) - jobStart
        startFraction == IF totalPositive(totalDurationMs)
                         THEN Rat(jobStart - globalStart, totalDurationMs)
                         ELSE Whole(0)
        widthFraction == IF totalPositive(totalDurationMs)
                         THEN Rat(jobDuration, totalDurationMs)
                         ELSE Whole(1)
    IN [job |-> job.id,
        startX |-> RatMul(startFraction, chartWidth),
        width |-> RatMul(widthFraction, chartWidth),
        durationLabel |-> formatDuration(jobDuration)]

\* computeTimeline(jobs)
computeTimeline(js) ==
    IF Len(timed(js)) = 0
    THEN [called |-> TRUE, bars |-> <<>>, totalDurationMs |-> 0, chartWidth |-> Whole(0)]
    ELSE LET globalStart == minStart(timed(js))
             totalDurationMs == maxEnd(timed(js)) - globalStart
             chartWidth == RatMax(Whole(200), RatMin(Whole(600), Rat(totalDurationMs, 100)))
             sorted == sortByStart(timed(js))
         IN [called |-> TRUE,
             bars |-> [k \in DOMAIN sorted |->
                         barOf(sorted[k], globalStart, totalDurationMs, chartWidth)],
             totalDurationMs |-> totalDurationMs,
             chartWidth |-> chartWidth]

\* The chart holds a list of jobs; the clock of the browser shows any of the
\* times, so a running job may have started after it.
InitTimeline ==
    /\ \E n \in 0..MaxTimelineJobs :
          \E st \in [1..n -> TimePoints \cup {NoTime}],
             en \in [1..n -> TimePoints \cup {NoTime}] :
             timedJobs = [k \in 1..n |->
                            [id |-> k, started_at |-> st[k], stopped_at |-> en[k]]]
    /\ now \in TimePoints
    /\ clockAdvance \in ClockAdvances
    /\ timeline = NoTimeline
    /\ LayoutIdle
    /\ StatusIdle
    /\ FetcherIdle
    /\ HookIdle
    /\ GroupsIdle
    /\ DurationIdle
    /\ ActiveIdle
    /\ ProxyIdle
    /\ MoreIdle

\* useMemo(() => computeTimeline(jobs))
ComputeTimeline ==
    /\ ~timeline.called
    /\ timeline' = computeTimeline(timedJobs)
    /\ UNCHANGED <<timedJobs, now, clockAdvance, layoutVars, statusVars, fetcherVars, hookVars,
                   groupVars, durationVars, activeVars, proxyVars,
                   moreVars>>

NextTimeline == ComputeTimeline

SpecTimeline == InitTimeline /\ [][NextTimeline]_vars

----------------------------------------------------------------------------
(* The grid of the job timeline: generateGridLines *)

\* The totals handed in reach MaxMultiple times each candidate interval.
MaxMultiple == 9

\* const intervals = [5000, 10000, 30000, 60000, 120000, 300000, 600000]
intervals == <<5000, 10000, 30000, 60000, 120000, 300000, 600000>>

\* The total durations: every multiple of every candidate and 0.1 s to either
\* side of it, none, and a negative one.
GridTotals ==
    {0, -500} \cup
    {c * m + e : c \in Range(intervals), m \in 1..MaxMultiple, e \in {-100, 0, 100}}

\* What TimelineChart hands to generateGridLines: the total and chart width
\* of computeTimeline, which are 0 and 0 when no job has started.
GridInputs ==
    {[totalMs |-> t,
      chartWidth |-> RatMax(Whole(200), RatMin(Whole(600), Rat(t, 100)))] :
        t \in GridTotals} \cup
    {[totalMs |-> 0, chartWidth |-> Whole(0)]}

RatAdd(a, b) == Rat(a.n * b.d + b.n * a.d, a.d * b.d)

\* A test that asks for at most 4 intervals in the total.
fitsFour(totalMs, i) == totalMs <= 4 * i

\* totalMs / i <= 8
fits(totalMs, i) == totalMs <= 8 * i

\* intervals.find((i) => totalMs / i <= 8) ?? totalMs / 4
RECURSIVE findInterval(_, _)
findInterval(totalMs, k) ==
    IF k > Len(intervals) THEN Rat(totalMs, 4)
    ELSE IF fits(totalMs, intervals[k]) THEN Whole(intervals[k])
    ELSE findInterval(totalMs, k + 1)

\* if (interval <= 0) interval = totalMs
intervalOf(totalMs) ==
    IF RatLess(Whole(0), findInterval(totalMs, 1))
    THEN findInterval(totalMs, 1)
    ELSE Whole(totalMs)

\* for (let t = 0; t <= totalMs; t += interval) lines.push(...)
RECURSIVE gridLoop(_, _, _, _)
gridLoop(t, totalMs, step, chartWidth) ==
    IF RatLess(Whole(totalMs), t) THEN <<>>
    ELSE <<[x |-> RatMul(Rat(t.n, t.d * totalMs), chartWidth),
            label |-> formatDuration(t.n \div t.d)]>>
         \o gridLoop(RatAdd(t, step), totalMs, step, chartWidth)

\* generateGridLines(totalMs, chartWidth)
generateGridLines(totalMs, chartWidth) ==
    IF totalMs = 0 \/ chartWidth = Whole(0)
    THEN [called |-> TRUE, lines |-> <<>>]
    ELSE [called |-> TRUE,
          lines |-> gridLoop(Whole(0), totalMs, intervalOf(totalMs), chartWidth)]

InitGrid ==
    /\ gridInput \in GridInputs
    /\ gridLines = NoGrid
    /\ LayoutIdle
    /\ StatusIdle
    /\ FetcherIdle
    /\ HookIdle
    /\ GroupsIdle
    /\ DurationIdle
    /\ TimelineIdle
    /\ ActiveIdle
    /\ ProxyIdle
    /\ PanelIdle
    /\ CountsIdle
    /\ AuthIdle

\* TimelineChart renders the time axis.
GenerateGridLines ==
    /\ ~gridLines.called
    /\ gridLines' = generateGridLines(gridInput.totalMs, gridInput.chartWidth)
    /\ UNCHANGED <<gridInput, layoutVars, statusVars, fetcherVars, hookVars, groupVars,
                   durationVars, timelineVars, activeVars, proxyVars, panelVars,
                   countVars, authVars>>

NextGrid == GenerateGridLines

SpecGrid == InitGrid /\ [][NextGrid]_vars

----------------------------------------------------------------------------
(* isActiveStatus *)

\* The most entities whose statuses a view tests.
MaxStatuses == 2

\* A status string outside the enumeration.
Unrecognised == "no-such-status"

InitActive ==
    /\ \E n \in 0..MaxStatuses : statuses \in [1..n -> CIStatus \cup {Unrecognised}]
    /\ activity = NotChecked
    /\ LayoutIdle
    /\ StatusIdle
    /\ FetcherIdle
    /\ HookIdle
    /\ GroupsIdle
    /\ DurationIdle
    /\ TimelineIdle
    /\ ProxyIdle
    /\ MoreIdle

\* workflows.some((w) => isActiveStatus(w.status)), with the answer for
\* every element.
HasActive ==
    /\ ~activity.called
    /\ activity' = [called |-> TRUE,
                    each |-> [k \in DOMAIN statuses |-> isActiveStatus(statuses[k])],
                    some |-> \E k \in DOMAIN statuses : isActiveStatus(statuses[k])]
    /\ UNCHANGED <<statuses, layoutVars, statusVars, fetcherVars, hookVars, groupVars,
                   durationVars, timelineVars, proxyVars,
                   moreVars>>

NextActive == HasActive

SpecActive == InitActive /\ [][NextActive]_vars

----------------------------------------------------------------------------
(* server.js: the production server in proxy mode *)

\* The host of the CIRCLECI constant.
CIRCLECI == "circleci.com"

\* Request paths, as their segments.
Paths ==
    {<<"api", "circleci", "me">>,
     <<"api", "circleci", "project", "gh", "org", "repo", "pipeline">>,
     <<"api", "circleci-v1", "project", "github", "org", "repo", "42">>,
     <<"api", "step-log">>,
     <<"api", "step-log", "x">>,
     <<"assets", "index.js">>,
     <<>>}

\* The ?url= parameter: absent, or a URL with its host, or no URL at all.
NoUrl == [present |-> FALSE]
UrlParams ==
    {NoUrl,
     [present |-> TRUE, valid |-> TRUE, host |-> "circleci.com"],
     [present |-> TRUE, valid |-> TRUE, host |-> "circle-production-action-output.s3.amazonaws.com"],
     [present |-> TRUE, valid |-> TRUE, host |-> "attacker.example"],
     [present |-> TRUE, valid |-> FALSE, host |-> ""]}

\* path.startsWith('/api/<name>/')
startsWithApi(path, name) ==
    Len(path) >= 3 /\ path[1] = "api" /\ path[2] = name

\* if (req.headers['circle-token']) headers['Circle-Token'] = ...
forwardedToken(req, host) == req.token

\* proxy(req, res, target): fetch(target, { method, headers, body }); a
\* target that is no URL makes fetch throw, which is answered with 502.
proxy(req, target) ==
    IF target.valid
    THEN [handled |-> TRUE, upstream |-> TRUE, host |-> target.host,
          token |-> forwardedToken(req, target.host), method |-> req.method,
          status |-> "upstream"]
    ELSE [handled |-> TRUE, upstream |-> FALSE, host |-> "", token |-> FALSE,
          method |-> req.method, status |-> "502"]

\* The createServer handler.
handler(req) ==
    IF startsWithApi(req.path, "circleci")
    THEN proxy(req, [present |-> TRUE, valid |-> TRUE, host |-> CIRCLECI])
    ELSE IF startsWithApi(req.path, "circleci-v1")
    THEN proxy(req, [present |-> TRUE, valid |-> TRUE, host |-> CIRCLECI])
    ELSE IF req.path = <<"api", "step-log">>
    THEN IF ~req.url.present
         THEN [handled |-> TRUE, upstream |-> FALSE, host |-> "", token |-> FALSE,
               method |-> req.method, status |-> "400"]
         ELSE proxy(req, req.url)
    ELSE [handled |-> TRUE, upstream |-> FALSE, host |-> "", token |-> FALSE,
          method |-> req.method, status |-> "static"]

\* A request arrives, with or without a Circle-Token header.
InitProxy ==
    /\ \E path \in Paths, token \in BOOLEAN, url \in UrlParams,
          method \in {"GET", "POST"} :
          request = [received |-> TRUE, path |-> path, token |-> token, url |-> url,
                     method |-> method]
    /\ proxied = NotHandled
    /\ LayoutIdle
    /\ StatusIdle
    /\ FetcherIdle
    /\ HookIdle
    /\ GroupsIdle
    /\ DurationIdle
    /\ TimelineIdle
    /\ ActiveIdle
    /\ MoreIdle

HandleRequest ==
    /\ ~proxied.handled
    /\ proxied' = handler(request)
    /\ UNCHANGED <<request, layoutVars, statusVars, fetcherVars, hookVars, groupVars,
                   durationVars, timelineVars, activeVars,
                   moreVars>>

NextProxy == HandleRequest

SpecProxy == InitProxy /\ [][NextProxy]_vars

----------------------------------------------------------------------------
(* The graph view: a job list arrives and is laid out. *)

InitLayout ==
    /\ \E n \in 0..MaxJobs :
          \E ds \in [1..n -> DepSeqs] :
             /\ SeqSum([k \in 1..n |-> Len(ds[k])]) <= MaxEdges
             /\ \E nm \in [1..n -> Names] : jobs = JobList(n, nm, ds)
    /\ layout = NoLayout
    /\ StatusIdle
    /\ FetcherIdle
    /\ HookIdle
    /\ OtherIdle

\* PipelineGraph renders: useMemo(() => layoutGraph(jobs), [jobs]).
Layout ==
    /\ ~layout.called
    /\ layout' = layoutGraph(jobs)
    /\ UNCHANGED <<jobs, statusVars, fetcherVars, hookVars, otherVars>>

NextLayout == Layout

SpecLayout == InitLayout /\ [][NextLayout]_vars

----------------------------------------------------------------------------
(* What the claims about layoutGraph speak of *)

\* The dependency ids of job k that resolve to a job of the list.
Resolvable(js, k) == {d \in Range(js[k].dependencies) : jobMapHas(js, d)}

\* The jobs reachable from the jobs of S along at most n resolvable edges.
RECURSIVE ReachFrom(_, _, _)
ReachFrom(js, S, n) ==
    IF n = 0 THEN S
    ELSE ReachFrom(js, S \cup UNION {Resolvable(js, k) : k \in S}, n - 1)

\* No job reaches itself along one or more resolvable edges.
Acyclic(js) ==
    \A k \in DOMAIN js : k \notin ReachFrom(js, Resolvable(js, k), Len(js))

\* The longest-path depth the specification defines for an acyclic list.
RECURSIVE LongestPath(_, _)
LongestPath(js, k) ==
    IF Resolvable(js, k) = {} THEN 0
    ELSE LET ds == {LongestPath(js, d) : d \in Resolvable(js, k)}
         IN 1 + CHOOSE m \in ds : \A x \in ds : x <= m

\* The node laid out for job id k.
NodeOf(lay, k) == nodeMapGet(lay.nodes, k)

\* What a job receives: its depth, its row and its pixel coordinates.
geometry(lay) ==
    {[id |-> lay.nodes[k].id, depth |-> lay.nodes[k].depth, row |-> lay.nodes[k].row,
      x |-> lay.nodes[k].x, y |-> lay.nodes[k].y] : k \in DOMAIN lay.nodes}

\* Jobs of equal longest-path depth carry different names.
ColumnNamesDistinct(js) ==
    \A i, k \in DOMAIN js :
        (i # k /\ LongestPath(js, i) = LongestPath(js, k)) => js[i].name # js[k].name

\* C1: on an acyclic job list layoutGraph raises nothing and gives every job
\* depth 0 when none of its dependency ids resolves to a job of the list,
\* else 1 + the largest depth of its resolvable dependencies; dangling ids
\* contribute nothing.
C1_DepthIsLongestPath ==
    (layout.called /\ Acyclic(jobs)) =>
        /\ ~layout.threw
        /\ Len(layout.nodes) = Len(jobs)
        /\ \A k \in DOMAIN jobs :
              /\ nodeMapHas(layout.nodes, k)
              /\ NodeOf(layout, k).depth = LongestPath(jobs, k)

\* A laid-out acyclic list with a job of depth 2 whose dependencies are a
\* dangling id and a job of depth 1.
C1_Witness ==
    /\ layout.called /\ Acyclic(jobs) /\ ~layout.threw
    /\ \E k \in DOMAIN jobs :
          /\ Resolvable(jobs, k) # {}
          /\ Resolvable(jobs, k) # Range(jobs[k].dependencies)
          /\ NodeOf(layout, k).depth = 2

\* C2 as stated: for every job list, every reordering of the list gives every
\* job the same depth, row and pixel coordinates.
C2_OrderIndependentAlways ==
    layout.called =>
        \A r \in Reorderings(jobs) :
            /\ layoutGraph(r).threw = layout.threw
            /\ geometry(layoutGraph(r)) = geometry(layout)

\* C2, amended: for every acyclic job list in which jobs of equal depth carry
\* different names, every reordering of the list gives every job the same
\* depth, row and pixel coordinates.
C2_OrderIndependentAcyclic ==
    (layout.called /\ Acyclic(jobs) /\ ColumnNamesDistinct(jobs)) =>
        \A r \in Reorderings(jobs) :
            /\ ~layoutGraph(r).threw
            /\ geometry(layoutGraph(r)) = geometry(layout)

\* A laid-out list of that kind in which a column holds two jobs that the
\* input lists against the order of their names, so that the sort moved them.
C2_Witness ==
    /\ layout.called /\ Acyclic(jobs) /\ ColumnNamesDistinct(jobs)
    /\ \E i, k \in DOMAIN jobs :
          /\ i < k
          /\ NodeOf(layout, i).depth = NodeOf(layout, k).depth
          /\ localeCompare(jobs[i].name, jobs[k].name) > 0
          /\ NodeOf(layout, i).row > NodeOf(layout, k).row
    /\ \E k \in DOMAIN jobs : NodeOf(layout, k).depth > 0

\* C3: on a job list whose dependency edges hold a cycle the depth computation
\* ends without exhausting the call stack and gives every job a depth in
\* 0..(number of jobs); a call that meets a job already in `visited` happens,
\* meets only jobs still being computed on the recursion path, and returns 0.
C3_CyclesTerminate ==
    (layout.called /\ ~Acyclic(jobs)) =>
        /\ ~layout.threw
        /\ Len(layout.nodes) = Len(jobs)
        /\ \A k \in DOMAIN layout.nodes : layout.nodes[k].depth \in 0..Len(jobs)
        /\ layout.revisits # {}
        /\ \A e \in layout.revisits : e.ret = 0 /\ e.onPath

\* A laid-out list holding a cycle of three jobs.
C3_Witness ==
    /\ layout.called /\ ~layout.threw
    /\ \E a, b, c \in DOMAIN jobs :
          /\ a # b /\ b # c /\ a # c
          /\ b \in Resolvable(jobs, a) /\ c \in Resolvable(jobs, b)
          /\ a \in Resolvable(jobs, c)
    /\ layout.revisits # {}

----------------------------------------------------------------------------
(* What the claims about the status aggregation speak of *)

\* The order the specification fixes, worst first.
WorstFirst ==
    <<"failed", "error", "failing", "running", "on_hold", "canceled", "not_run",
      "unauthorized", "success">>

WorstRank(st) == CHOOSE i \in DOMAIN WorstFirst : WorstFirst[i] = st

StatusReorderings(ws) ==
    {[i \in DOMAIN ws |-> ws[p[i]]] : p \in Permutations(DOMAIN ws)}

\* C4: for a non-empty list of workflow statuses the aggregate is the member
\* of the list that comes earliest in failed, error, failing, running, on_hold,
\* canceled, not_run, unauthorized, success; for the empty list it is undefined
\* and nothing is raised.
C4_WorstWorkflowStatus ==
    (aggregate.called /\ Range(workflows) \subseteq WorkflowStatus) =>
        IF workflows = <<>> THEN aggregate.status = Undefined
        ELSE /\ aggregate.status \in Range(workflows)
             /\ \A st \in Range(workflows) : WorstRank(aggregate.status) <= WorstRank(st)

\* An aggregated list of three different workflow statuses whose worst member
\* is neither first nor last in the list.
C4_Witness ==
    /\ aggregate.called /\ aggregate.by = "hook"
    /\ Len(workflows) = 3 /\ Cardinality(Range(workflows)) = 3
    /\ Range(workflows) \subseteq WorkflowStatus
    /\ aggregate.status = workflows[2]

\* C5 as stated: for every non-empty collection of statuses of the enumeration
\* every reordering aggregates to the same status, and a collection of one
\* distinct status aggregates to that status.
C5_OrderIndependentAlways ==
    (aggregate.called /\ workflows # <<>>) =>
        /\ \A r \in StatusReorderings(workflows) :
              /\ aggregateWorkflowStatus(r) = aggregate.status
              /\ cardAggregateStatus(r) = aggregate.status
        /\ Cardinality(Range(workflows)) = 1 => aggregate.status = workflows[1]

\* C5, amended: for every non-empty collection of statuses of the enumeration
\* that holds at least one status of the priority order (every collection of
\* workflow statuses does) every reordering aggregates to the same status; a
\* collection of one distinct status, of whatever kind, aggregates to that status.
C5_OrderIndependentListed ==
    (aggregate.called /\ workflows # <<>>) =>
        /\ Range(workflows) \cap Range(WorstFirst) # {} =>
              \A r \in StatusReorderings(workflows) :
                  /\ aggregateWorkflowStatus(r) = aggregate.status
                  /\ cardAggregateStatus(r) = aggregate.status
        /\ Cardinality(Range(workflows)) = 1 => aggregate.status = workflows[1]

\* An aggregated collection that mixes a job-only status with two workflow
\* statuses, the worst of them last.
C5_Witness ==
    /\ aggregate.called
    /\ Len(workflows) = 3
    /\ workflows[1] \in CIStatus \ WorkflowStatus
    /\ workflows[2] \in WorkflowStatus /\ workflows[3] \in WorkflowStatus
    /\ workflows[2] # workflows[3]
    /\ aggregate.status = workflows[3]

----------------------------------------------------------------------------
(* The branch summarizer: what its result is measured against *)

\* The distinct branch names among the fetched pipelines.
FetchedBranches ==
    {allPipelines[k].branch : k \in DOMAIN allPipelines} \ {NoBranch}

\* The first fetched pipeline of branch b, in fetch order.
FirstSeen(b) ==
    allPipelines[CHOOSE k \in DOMAIN allPipelines :
                    /\ allPipelines[k].branch = b
                    /\ \A m \in 1..(k - 1) : allPipelines[m].branch # b]

\* The number of fetched pipelines whose vcs.branch is b.
SeenCount(b) == Cardinality({k \in DOMAIN allPipelines : allPipelines[k].branch = b})

\* The positions of the result that summarize branch b.
SummariesOf(b) == {k \in DOMAIN data.branches : data.branches[k].name = b}

\* The fetcher has returned and load() has stored its result.
Returned == pc = "done"

\* How the workflow fetch for pipeline id settled.
FetchFailed(id) == id \in DOMAIN wfLog /\ wfLog[id].failed
FetchAnswered(id) == id \in DOMAIN wfLog /\ ~wfLog[id].failed

\* C6: the result holds exactly one summary per distinct branch name among
\* the fetched pipelines; its latestPipeline is the first pipeline fetched for
\* the branch and its recentPipelineCount the number of fetched pipelines of
\* the branch; branchless pipelines are no entry and make up triggeredCount.
C6_OneSummaryPerBranch ==
    Returned =>
        /\ \A b \in FetchedBranches :
              /\ Cardinality(SummariesOf(b)) = 1
              /\ \A k \in SummariesOf(b) :
                    /\ data.branches[k].latestPipeline = FirstSeen(b)
                    /\ data.branches[k].recentPipelineCount = SeenCount(b)
        /\ \A k \in DOMAIN data.branches : data.branches[k].name \in FetchedBranches
        /\ data.triggeredCount = SeenCount(NoBranch)

\* A result over two branches, one with a second pipeline, and a branchless pipeline.
C6_Witness ==
    /\ Returned
    /\ Cardinality(FetchedBranches) >= 2
    /\ \E b \in FetchedBranches : SeenCount(b) >= 2
    /\ SeenCount(NoBranch) >= 1
    /\ data.triggeredCount >= 1

\* C7: whatever the number of distinct branches and whichever workflow
\* fetches fail, the result of one invocation holds every distinct branch
\* exactly once.
C7_NoBranchSkipped ==
    Returned =>
        /\ Len(data.branches) = Cardinality(FetchedBranches)
        /\ {data.branches[k].name : k \in DOMAIN data.branches} = FetchedBranches

\* A result over more branches than one batch holds, not a multiple of the
\* batch size, with a failed fetch in the first batch and one in the second.
C7_Witness ==
    /\ Returned
    /\ Cardinality(FetchedBranches) > batchSize
    /\ Cardinality(FetchedBranches) % batchSize # 0
    /\ \E k \in 1..batchSize : FetchFailed(entries[k].pipeline.id)
    /\ \E k \in (batchSize + 1)..Len(entries) : FetchFailed(entries[k].pipeline.id)
    /\ \E k \in DOMAIN entries : FetchAnswered(entries[k].pipeline.id)

\* C8: a failed workflow fetch does not fail the invocation; the branch it
\* was for is summarized with latestPipeline and recentPipelineCount and no
\* latestWorkflowStatus, and every other branch has the status its own
\* fetch returned.
C8_FetchFailureAbsorbed ==
    /\ (\E id \in DOMAIN wfLog : wfLog[id].failed) => (pc # "failed" /\ error = NoError)
    /\ Returned =>
          \A k \in DOMAIN data.branches :
             LET s == data.branches[k]
                 id == s.latestPipeline.id
             IN /\ id \in DOMAIN wfLog
                /\ s.latestPipeline = FirstSeen(s.name)
                /\ s.recentPipelineCount = SeenCount(s.name)
                /\ s.hasStatus = ~wfLog[id].failed
                /\ FetchAnswered(id) =>
                      s.latestWorkflowStatus = aggregateWorkflowStatus(wfLog[id].workflows)

\* A result over two batches with a failed fetch in the first batch and
\* answered fetches, with a status, in the first and in the second.
C8_Witness ==
    /\ Returned
    /\ Len(entries) > batchSize
    /\ \E k \in 1..batchSize : FetchFailed(entries[k].pipeline.id)
    /\ \E k \in DOMAIN data.branches :
          /\ ~data.branches[k].hasStatus
          /\ data.branches[k].recentPipelineCount >= 2
    /\ \E k \in DOMAIN data.branches, m \in DOMAIN data.branches :
          /\ data.branches[k].latestPipeline.id \in
                {entries[j].pipeline.id : j \in 1..batchSize}
          /\ data.branches[m].latestPipeline.id \in
                {entries[j].pipeline.id : j \in (batchSize + 1)..Len(entries)}
          /\ data.branches[k].hasStatus /\ data.branches[k].latestWorkflowStatus = "running"
          /\ data.branches[m].hasStatus /\ data.branches[m].latestWorkflowStatus = "running"

\* C9: when the fetch of a page fails, the invocation fails with one error,
\* no result is stored and no workflow fetch has been issued.
C9_PageFailureFailsAll ==
    (pageLog # <<>> /\ pageLog[Len(pageLog)] = "failed") =>
        /\ pc = "failed"
        /\ error = [message |-> "Error"]
        /\ errorCount = 1
        /\ data = NoData
        /\ wfIssued = {}
        /\ ~loading

\* A later page fails after earlier pages delivered pipelines of two branches.
C9_Witness ==
    /\ Len(pageLog) >= 3
    /\ pageLog[Len(pageLog)] = "failed"
    /\ pageLog[1] = "ok"
    /\ Cardinality(FetchedBranches) >= 2
    /\ pc = "failed"

----------------------------------------------------------------------------
(* useAsyncData: overlapping loads *)

\* Every load() call has settled.
AllSettled == requests # <<>> /\ \A k \in DOMAIN requests : requests[k].state # "inflight"

\* The view stayed mounted, so that every response was applied.
StayedMounted == mounted

\* C10: once overlapping loads have all settled, the data and the error held
\* are those of the load issued last: its result with no error when it
\* resolved, its error when it rejected.
C10_LatestRequestWins ==
    (AllSettled /\ StayedMounted) =>
        LET n == Len(requests)
        IN IF requests[n].state = "resolved"
           THEN data # NoData /\ data.from = n /\ error = NoError
           ELSE error = [message |-> "Error", from |-> n]

----------------------------------------------------------------------------
(* useAsyncData: polling and timers *)

\* This step issues a load() of the given kind.
Issues(kind) ==
    /\ Len(requests') = Len(requests) + 1
    /\ requests'[Len(requests')].kind = kind

\* The data held contain no entity with an active status.
NothingActive == data # NoData /\ ~data.active

\* C11: while the most recently fetched data contain no active entity, no
\* poll fetch is issued.
C11_PollingStopsWhenIdle == [][NothingActive => ~Issues("poll")]_vars

\* C12: once the view is unmounted no timer starts a fetch: neither the poll
\* interval nor a delayed refetch issues a load().
C12_NoFetchAfterUnmount == [][(~mounted) => Len(requests') = Len(requests)]_vars

----------------------------------------------------------------------------
(* The Triggers page: what the groups are measured against *)

\* The positions of the groups that hold the triggered pipeline t.
GroupsHolding(t) == {i \in DOMAIN groups.list : t \in Range(groups.list[i].items)}

\* The key the grouping rule gives to t.
RuleKey(t) == IF t.tag # NoTag THEN "tag:" \o t.tag ELSE "sha:" \o t.revision

\* C13: every triggered pipeline is in exactly one group, the one keyed
\* tag:<tag> when it has a tag and sha:<revision> otherwise; pipelines that
\* share a tag are in one group whatever their revisions; no two groups have
\* the same key.
C13_GroupedByTagElseSha ==
    groups.called =>
        /\ \A k \in DOMAIN triggered :
              /\ Cardinality(GroupsHolding(triggered[k])) = 1
              /\ \A i \in GroupsHolding(triggered[k]) :
                    groups.list[i].key = RuleKey(triggered[k])
        /\ \A k \in DOMAIN triggered, m \in DOMAIN triggered :
              (triggered[k].tag # NoTag /\ triggered[k].tag = triggered[m].tag) =>
                  GroupsHolding(triggered[k]) = GroupsHolding(triggered[m])
        /\ \A i \in DOMAIN groups.list, j \in DOMAIN groups.list :
              groups.list[i].key = groups.list[j].key => i = j
        /\ \A i \in DOMAIN groups.list :
              Range(groups.list[i].items) \subseteq Range(triggered)

\* Two pipelines of one tag with different revisions share a group, and an
\* untagged pipeline whose revision reads like the tag is in another group.
C13_Witness ==
    /\ groups.called
    /\ \E k \in DOMAIN triggered, m \in DOMAIN triggered, u \in DOMAIN triggered :
          /\ triggered[k].tag # NoTag
          /\ triggered[k].tag = triggered[m].tag
          /\ triggered[k].revision # triggered[m].revision
          /\ triggered[u].tag = NoTag
          /\ triggered[u].revision = triggered[k].tag
          /\ GroupsHolding(triggered[k]) = GroupsHolding(triggered[m])
          /\ GroupsHolding(triggered[u]) # GroupsHolding(triggered[k])

\* The resolved workflow statuses of the members of a group, in the order of
\* the list handed to buildGroups.
ResolvedStatuses(g) ==
    LET members == SelectSeq(triggered, LAMBDA t : t \in Range(g.items)
                                                   /\ t.workflowStatus # Undefined)
    IN [k \in DOMAIN members |-> members[k].workflowStatus]

\* The pairwise fold of pickWorstStatus over a list of statuses.
RECURSIVE foldWorst(_, _, _)
foldWorst(sts, k, worst) ==
    IF k > Len(sts) THEN worst
    ELSE foldWorst(sts, k + 1,
                   IF worst # Undefined THEN pickWorstStatus(worst, sts[k]) ELSE sts[k])

\* C14: the worstStatus of every group is the worst-status aggregation of
\* the resolved statuses of its members, undefined when there are none, and
\* the fold of pickWorstStatus agrees with aggregateWorkflowStatus on every
\* order of these statuses.
C14_WorstStatusIsAggregate ==
    groups.called =>
        \A i \in DOMAIN groups.list :
           LET sts == ResolvedStatuses(groups.list[i])
           IN /\ groups.list[i].worstStatus = aggregateWorkflowStatus(sts)
              /\ \A r \in StatusReorderings(sts) :
                    foldWorst(r, 1, Undefined) = aggregateWorkflowStatus(r)

----------------------------------------------------------------------------
(* The graph view: canvas size *)

\* The largest depth of a node, and the size of the tallest column.
MaxDepthOfNodes ==
    IF layout.nodes = <<>> THEN 0
    ELSE CHOOSE d \in {layout.nodes[k].depth : k \in DOMAIN layout.nodes} :
            \A k \in DOMAIN layout.nodes : layout.nodes[k].depth <= d

ColumnSize(d) == Cardinality({k \in DOMAIN layout.nodes : layout.nodes[k].depth = d})

TallestColumn ==
    IF layout.nodes = <<>> THEN 0
    ELSE CHOOSE n \in {ColumnSize(layout.nodes[k].depth) : k \in DOMAIN layout.nodes} :
            \A k \in DOMAIN layout.nodes : ColumnSize(layout.nodes[k].depth) <= n

\* C15: for every job list, the empty one included, the canvas is at least
\* 200 wide and 140 high; for a list with jobs the width is the larger of 200
\* and 100 + maxDepth*160 + 44, the height the larger of 140 and
\* 100 + (tallest column - 1)*72 + 40.
C15_CanvasFloor ==
    (layout.called /\ ~layout.threw) =>
        /\ layout.width >= 200
        /\ layout.height >= 140
        /\ jobs # <<>> =>
              /\ layout.width = Max2(200, 100 + MaxDepthOfNodes * 160 + 44)
              /\ layout.height = Max2(140, 100 + (TallestColumn - 1) * 72 + 40)

\* C15 for the lists that hold a job.
C15_CanvasFloorWithJobs ==
    (layout.called /\ ~layout.threw /\ jobs # <<>>) =>
        /\ layout.width >= 200
        /\ layout.height >= 140
        /\ layout.width = Max2(200, 100 + MaxDepthOfNodes * 160 + 44)
        /\ layout.height = Max2(140, 100 + (TallestColumn - 1) * 72 + 40)

----------------------------------------------------------------------------
(* formatDuration: what the text is measured against *)

\* q is n divided by d, truncated: the largest whole number of d's in n.
Truncated(q, n, d) == q * d <= n /\ n < (q + 1) * d

\* The whole seconds, minutes and hours in n milliseconds.
WholeSeconds(n) == n \div 1000
WholeMinutes(n) == n \div 60000
WholeHours(n) == n \div 3600000

\* C17: a negative duration is formatted as the em-dash; any other as
\* "{h}h {m}m" from one hour on, as "{m}m {s}s" from one minute on and as
\* "{s}s" below, with every component truncated: 0 is 0s, 65000 is 1m 5s,
\* 3700000 is 1h 1m, -5 is the em-dash.
C17_FormatDurationTruncates ==
    formatted.called =>
        /\ ms < 0 => formatted.text = EmDash
        /\ ms >= 0 =>
              LET h == WholeHours(ms)
                  m == WholeMinutes(ms) - 60 * h
                  sec == WholeSeconds(ms) - 60 * WholeMinutes(ms)
              IN /\ Truncated(WholeSeconds(ms), ms, 1000)
                 /\ Truncated(WholeMinutes(ms), ms, 60000)
                 /\ Truncated(WholeHours(ms), ms, 3600000)
                 /\ formatted.text =
                       IF h >= 1 THEN ToString(h) \o "h " \o ToString(m) \o "m"
                       ELSE IF m >= 1 THEN ToString(m) \o "m " \o ToString(sec) \o "s"
                       ELSE ToString(sec) \o "s"
        /\ ms = 0 => formatted.text = "0s"
        /\ ms = 65000 => formatted.text = "1m 5s"
        /\ ms = 3700000 => formatted.text = "1h 1m"
        /\ ms = 0 - 5 => formatted.text = EmDash
        /\ ms = 1500 => formatted.text = "1s"
        /\ ms = 59999 => formatted.text = "59s"
        /\ ms = 3599999 => formatted.text = "59m 59s"

\* A duration half a second short of a whole minute has been formatted.
C17_Witness ==
    /\ formatted.called
    /\ ms = 59500
    /\ formatted.text = "59s"

----------------------------------------------------------------------------
(* The job timeline: what the bars are measured against *)

\* The jobs included in the timeline: those with a start time.
Included == {k \in DOMAIN timedJobs : timedJobs[k].started_at # NoTime}

StartOf(k) == timedJobs[k].started_at
EndOf(k) == IF timedJobs[k].stopped_at # NoTime THEN timedJobs[k].stopped_at ELSE now

\* The duration of job k when its bar is built: a running job has run on.
DurationOf(k) ==
    IF timedJobs[k].stopped_at # NoTime THEN timedJobs[k].stopped_at - StartOf(k)
    ELSE now + clockAdvance - StartOf(k)

\* The global start, and the total duration from it to the latest end.
GlobalStart == CHOOSE t \in {StartOf(k) : k \in Included} : \A k \in Included : t <= StartOf(k)
GlobalEnd == CHOOSE t \in {EndOf(k) : k \in Included} : \A k \in Included : EndOf(k) <= t
TotalDuration == GlobalEnd - GlobalStart

\* The bars of job k.
BarsOf(k) == {i \in DOMAIN timeline.bars : timeline.bars[i].job = timedJobs[k].id}

\* The bar b shows job k in proportion to the total duration.
Proportional(b, k) ==
    /\ b.startX = RatMul(Rat(StartOf(k) - GlobalStart, TotalDuration), timeline.chartWidth)
    /\ b.width = RatMul(Rat(DurationOf(k), TotalDuration), timeline.chartWidth)

\* The bar b starts at 0 and fills the chart.
FillsChart(b) == b.startX = Whole(0) /\ b.width = timeline.chartWidth

\* Jobs 0..1000 and 500..1000: the first bar spans the chart, the second its
\* second half.
TwoJobExample ==
    (/\ Len(timedJobs) = 2
     /\ StartOf(1) = 0 /\ EndOf(1) = 1000 /\ DurationOf(1) = 1000
     /\ StartOf(2) = 500 /\ EndOf(2) = 1000 /\ DurationOf(2) = 500) =>
        /\ Len(timeline.bars) = 2
        /\ timeline.totalDurationMs = 1000
        /\ timeline.bars[1].job = 1 /\ FillsChart(timeline.bars[1])
        /\ timeline.bars[2].job = 2
        /\ timeline.bars[2].startX = RatMul(Rat(1, 2), timeline.chartWidth)
        /\ timeline.bars[2].width = RatMul(Rat(1, 2), timeline.chartWidth)

\* C16 as stated: every included job has one bar, in proportion to the total
\* duration; with a total duration of 0 the bar starts at 0 and fills the
\* chart; no value is NaN or infinite.
C16_BarsProportionalUnlessZero ==
    timeline.called =>
        /\ \A k \in Included :
              /\ Cardinality(BarsOf(k)) = 1
              /\ \A i \in BarsOf(k) :
                    /\ IsFinite(timeline.bars[i].startX)
                    /\ IsFinite(timeline.bars[i].width)
                    /\ IF TotalDuration = 0 THEN FillsChart(timeline.bars[i])
                       ELSE Proportional(timeline.bars[i], k)
        /\ Len(timeline.bars) = Cardinality(Included)
        /\ TwoJobExample

\* C16, amended: every included job has one bar; with a total duration above
\* 0 it is in proportion to the total duration, with a total duration of 0 or
\* below the bar starts at 0 and fills the chart; no value is NaN or infinite.
C16_BarsProportionalWhenPositive ==
    timeline.called =>
        /\ \A k \in Included :
              /\ Cardinality(BarsOf(k)) = 1
              /\ \A i \in BarsOf(k) :
                    /\ IsFinite(timeline.bars[i].startX)
                    /\ IsFinite(timeline.bars[i].width)
                    /\ IF TotalDuration <= 0 THEN FillsChart(timeline.bars[i])
                       ELSE Proportional(timeline.bars[i], k)
        /\ Len(timeline.bars) = Cardinality(Included)
        /\ Included # {} => timeline.totalDurationMs = TotalDuration
        /\ TwoJobExample

\* The timeline of the two jobs 0..1000 and 500..1000 has been computed.
C16_Witness ==
    /\ timeline.called
    /\ Len(timedJobs) = 2
    /\ StartOf(1) = 0 /\ EndOf(1) = 1000
    /\ StartOf(2) = 500 /\ EndOf(2) = 1000
    /\ timeline.bars[2].startX = Whole(100)
    /\ timeline.bars[2].width = Whole(100)

----------------------------------------------------------------------------
(* isActiveStatus: the eight active statuses *)

ActiveEight ==
    {"running", "failing", "queued", "not_running", "created", "pending",
     "setup-pending", "setup"}

\* C18: isActiveStatus is true for the eight statuses running, failing,
\* queued, not_running, created, pending, setup-pending and setup, and false
\* for every other status of the enumeration and for an unrecognised string.
C18_ActiveExactlyEight ==
    activity.called =>
        /\ \A k \in DOMAIN statuses : activity.each[k] = (statuses[k] \in ActiveEight)
        /\ activity.some = (Range(statuses) \cap ActiveEight # {})
        /\ \A k \in DOMAIN statuses :
              statuses[k] \in {"success", "failed", "error", "on_hold", "canceled",
                               "blocked", "errored", Unrecognised} => ~activity.each[k]

\* A pipeline state of the eight and an unrecognised string have been tested.
C18_Witness ==
    /\ activity.called
    /\ Len(statuses) = 2
    /\ statuses[1] = "setup" /\ activity.each[1]
    /\ statuses[2] = Unrecognised /\ ~activity.each[2]
    /\ activity.some

----------------------------------------------------------------------------
(* server.js: where the token goes *)

\* C19: an upstream request that carries the Circle-Token header goes to
\* circleci.com, whichever route the request came in on.
C19_TokenToCircleOnly ==
    (proxied.handled /\ proxied.upstream /\ proxied.token) => proxied.host = "circleci.com"

----------------------------------------------------------------------------
(* The fan-outs: how many workflow fetches are in flight *)

\* The pipelines whose workflow fetch is issued and not settled.
InFlight == wfIssued \ DOMAIN wfLog

\* The batch, counted from 0, that entry k belongs to.
BatchNo(k) == (k - 1) \div 6

\* C20: in one invocation of either fan-out at most 6 workflow fetches are
\* in flight, and while a fetch of a batch is in flight every fetch of the
\* batches before it has settled and none of the batches after it is issued.
C20_BatchedFetches ==
    /\ Cardinality(InFlight) <= 6
    /\ \A k \in DOMAIN entries, m \in DOMAIN entries :
          (entries[k].pipeline.id \in wfIssued /\ BatchNo(m) < BatchNo(k)) =>
              entries[m].pipeline.id \in DOMAIN wfLog
    /\ wfIssued \subseteq {entries[k].pipeline.id : k \in DOMAIN entries}

\* The second batch of a fan-out over seven entries is in flight after a
\* first batch in which a fetch failed.
C20_Witness ==
    /\ Len(entries) > 6
    /\ InFlight = {entries[k].pipeline.id : k \in 7..Len(entries)}
    /\ \E k \in 1..6 : FetchFailed(entries[k].pipeline.id)
    /\ pc = "batching-triggered"

----------------------------------------------------------------------------
(* The edges of the graph *)

\* The (dependency, dependent) pairs of the job list whose endpoints are both
\* jobs of the list.
ResolvedPairs ==
    {<<d, jobs[k].id>> : k \in DOMAIN jobs, d \in DepIds} \cap
    {pr \in DepIds \X JobIds :
        /\ jobMapHas(jobs, pr[1])
        /\ \E k \in DOMAIN jobs : jobs[k].id = pr[2] /\ pr[1] \in Range(jobs[k].dependencies)}

\* The positions of the edge list that hold the pair pr.
EdgesOf(pr) ==
    {i \in DOMAIN layout.edges : layout.edges[i].from = pr[1] /\ layout.edges[i].to = pr[2]}

\* C21: the edge list holds exactly one edge per (dependency, dependent) pair
\* whose endpoints are both jobs of the list and no other edge, so none for a
\* dangling id; fromNode and toNode of an edge are the laid-out nodes whose
\* ids are its from and to.
C21_OneEdgePerResolvedPair ==
    (layout.called /\ ~layout.threw) =>
        /\ \A pr \in ResolvedPairs : Cardinality(EdgesOf(pr)) = 1
        /\ \A i \in DOMAIN layout.edges :
              /\ <<layout.edges[i].from, layout.edges[i].to>> \in ResolvedPairs
              /\ layout.edges[i].fromNode \in Range(layout.nodes)
              /\ layout.edges[i].fromNode.id = layout.edges[i].from
              /\ layout.edges[i].toNode \in Range(layout.nodes)
              /\ layout.edges[i].toNode.id = layout.edges[i].to
        /\ \A a, b \in DOMAIN layout.nodes :
              layout.nodes[a].id = layout.nodes[b].id => a = b

\* A laid-out list in which one job names a dangling id and a job of the list,
\* and two edges end in different nodes.
C21_Witness ==
    /\ layout.called /\ ~layout.threw
    /\ \E k \in DOMAIN jobs :
          /\ Resolvable(jobs, k) # {}
          /\ Resolvable(jobs, k) # Range(jobs[k].dependencies)
    /\ Len(layout.edges) = 2
    /\ layout.edges[1].fromNode # layout.edges[2].fromNode

----------------------------------------------------------------------------
(* The paging loop of the branch summarizer *)

\* C22: one invocation issues at most 5 page fetches, each page after the
\* first is fetched with the token of the page before it, so that the pages
\* are consecutive stretches of the upstream list, and the loop is over once
\* a page came without next_page_token or without items, and after the fifth
\* page whatever it held.
C22_PagingBounded ==
    /\ Len(pageLog) <= 5
    /\ \A i \in 1..(Len(pageLog) - 1) : pageLog[i] = "ok"
    /\ allPipelines = SubSeq(upstream, 1, Len(allPipelines))
    /\ pc = "paging" =>
          /\ Len(pageLog) < 5
          /\ page = Len(pageLog)
          /\ cursorOf(pageToken) = Len(allPipelines)
          /\ (pageLog # <<>>) = (pageToken # NoToken)
    /\ (pageLog # <<>> /\ pageLog[Len(pageLog)] # "ok") => pc # "paging"

\* Five pages came, each with items and a next_page_token, and the loop is
\* over with pipelines left upstream.
C22_Witness ==
    /\ Len(pageLog) = 5
    /\ \A i \in 1..5 : pageLog[i] = "ok"
    /\ pc \in {"batching", "done"}
    /\ Len(allPipelines) < Len(upstream)

----------------------------------------------------------------------------
(* The grid lines: what they are measured against *)

\* The candidate intervals with at most 8 of them in the total.
Qualifying(total) == {c \in Range(intervals) : total <= 8 * c}

\* The tick interval for a positive total: the smallest qualifying candidate,
\* a quarter of the total when there is none.
TickInterval(total) ==
    IF Qualifying(total) # {}
    THEN Whole(CHOOSE c \in Qualifying(total) : \A o \in Qualifying(total) : c <= o)
    ELSE Rat(total, 4)

RatLeq(a, b) == ~RatLess(b, a)

\* k times the number a.
Times(k, a) == Rat(k * a.n, a.d)

\* C23: for a positive total the ticks stand at 0, interval, 2*interval, ...
\* up to the total, the interval being the smallest of the candidates with
\* total / interval <= 8 and total / 4 when none qualifies; they are between
\* 1 and 9, each at x = t / total * chartWidth within [0, chartWidth]; for
\* total 0 there is no tick.
C23_GridTicks ==
    gridLines.called =>
        LET total == gridInput.totalMs
            cw == gridInput.chartWidth
            n == Len(gridLines.lines)
        IN /\ total = 0 => n = 0
           /\ total > 0 =>
                 /\ n \in 1..9
                 /\ RatLeq(Times(n - 1, TickInterval(total)), Whole(total))
                 /\ RatLess(Whole(total), Times(n, TickInterval(total)))
                 /\ \A k \in 1..n :
                       /\ gridLines.lines[k].x =
                             RatMul(Rat(Times(k - 1, TickInterval(total)).n,
                                        Times(k - 1, TickInterval(total)).d * total), cw)
                       /\ RatLeq(Whole(0), gridLines.lines[k].x)
                       /\ RatLeq(gridLines.lines[k].x, cw)

\* Nine ticks 10 s apart over a total of 80 s, the last at the right edge.
C23_Witness ==
    /\ gridLines.called
    /\ gridInput.totalMs = 80000
    /\ Len(gridLines.lines) = 9
    /\ gridLines.lines[9].x = gridInput.chartWidth
    /\ gridLines.lines[2].label = "10s"

----------------------------------------------------------------------------
(* The order of the branch list *)

\* The branch summary carries an active status.
ActiveBranch(b) == b.hasStatus /\ b.latestWorkflowStatus \in ActiveEight

\* C24: in the returned list no branch with a terminal or absent status
\* precedes a branch with an active status, and of two branches of one class
\* the one listed first has the later or same creation time of its latest
\* pipeline.
C24_ActiveFirstThenNewest ==
    Returned =>
        \A i, j \in DOMAIN data.branches :
            i < j =>
                /\ ActiveBranch(data.branches[j]) => ActiveBranch(data.branches[i])
                /\ (ActiveBranch(data.branches[i]) = ActiveBranch(data.branches[j])) =>
                      data.branches[i].latestPipeline.created_at >=
                          data.branches[j].latestPipeline.created_at

\* Two active branches lead the list and a branch without a status, whose
\* latest pipeline is newer than theirs, follows them.
C24_Witness ==
    /\ Returned
    /\ Len(data.branches) >= 3
    /\ ActiveBranch(data.branches[1]) /\ ActiveBranch(data.branches[2])
    /\ ~data.branches[3].hasStatus
    /\ data.branches[3].latestPipeline.created_at >
           data.branches[1].latestPipeline.created_at

----------------------------------------------------------------------------
(* The loading flag *)

\* C25: whenever a mounted hook is loading, loading becomes false later (or
\* the view is gone), with a fetcher and without one.
C25_LoadingEnds == (mounted /\ loading) ~> (~loading \/ ~mounted)

\* The same for the hooks that have a fetcher for good.
C25_LoadingEndsWithFetcher ==
    (mounted /\ loading /\ fetcher) ~> (~loading \/ ~mounted \/ ~fetcher)

----------------------------------------------------------------------------
(* The bars and the chart *)

\* No included job stops before it starts, a running job being taken to stop
\* at the current time.
WellTimed == \A k \in Included : StartOf(k) <= EndOf(k)

RatSum(a, b) == Rat(a.n * b.d + b.n * a.d, a.d * b.d)

\* The bar b lies within the chart.
InsideChart(b) ==
    /\ RatLeq(Whole(0), b.startX)
    /\ RatLeq(RatSum(b.startX, b.width), timeline.chartWidth)

\* C27: for a job list in which no job stops before it starts, every bar has
\* 0 <= startX and startX + width <= chartWidth, and the chart width is
\* between 200 and 600, whether or not the clock advances between the reads
\* of the current time.
C27_BarsInsideChart ==
    (timeline.called /\ WellTimed /\ Included # {}) =>
        /\ \A i \in DOMAIN timeline.bars : InsideChart(timeline.bars[i])
        /\ RatLeq(Whole(200), timeline.chartWidth)
        /\ RatLeq(timeline.chartWidth, Whole(600))

\* C27 for the calls during which the clock does not advance.
C27_BarsInsideChartOneReading ==
    (timeline.called /\ WellTimed /\ Included # {} /\ clockAdvance = 0) =>
        /\ \A i \in DOMAIN timeline.bars : InsideChart(timeline.bars[i])
        /\ RatLeq(Whole(200), timeline.chartWidth)
        /\ RatLeq(timeline.chartWidth, Whole(600))

----------------------------------------------------------------------------
(* The triggered count and the Triggers page *)

\* C28: for every upstream pipeline sequence, of one page or of several, the
\* triggered count of the branch summarizer is the length of the list the
\* Triggers page obtains.
C28_TriggeredCountsAgree ==
    pageCounts.called => pageCounts.triggeredCount = pageCounts.triggered

\* C28 for the projects whose pipelines fit one page.
C28_TriggeredCountsAgreeOnePage ==
    (pageCounts.called /\ Len(project.pipelines) <= project.pageSize) =>
        pageCounts.triggeredCount = pageCounts.triggered

----------------------------------------------------------------------------
(* The login and the validation of the saved token *)

\* The state and the storage are those a completed login left.
LoggedInAs(token) ==
    /\ authState = [token |-> token, projectSlug |-> Slug, user |-> token,
                    client |-> token]
    /\ storage = [token |-> token, project |-> Slug]

\* C26: when the getMe call of the mount-time validation rejects after a
\* login has completed, the state and the stored token stay those of the
\* login.
C26_LoginSurvivesValidation ==
    [][\A token \in TypedTokens :
          (LoggedInAs(token) /\ validation = "inflight" /\ validation' = "rejected") =>
              (authState' = authState /\ storage' = storage)]_vars

----------------------------------------------------------------------------
(* The pipeline counts of the branch summarizer *)

\* C29: in every result the recentPipelineCount of all branches and the
\* triggered count add up to the number of pipelines fetched, and every
\* recentPipelineCount is at least 1.
C29_CountsConserved ==
    Returned =>
        /\ SeqSum([k \in DOMAIN data.branches |-> data.branches[k].recentPipelineCount])
              + data.triggeredCount = Len(allPipelines)
        /\ \A k \in DOMAIN data.branches : data.branches[k].recentPipelineCount >= 1

\* A result over several pages with a branch of two pipelines, a branchless
\* pipeline and a branch whose workflow fetch failed.
C29_Witness ==
    /\ Returned
    /\ Len(pageLog) >= 2
    /\ data.triggeredCount >= 1
    /\ \E k \in DOMAIN data.branches : data.branches[k].recentPipelineCount = 2
    /\ \E k \in DOMAIN data.branches : ~data.branches[k].hasStatus

----------------------------------------------------------------------------
(* The columns of the graph *)

\* The depths that hold a node.
OccupiedDepths == {layout.nodes[k].depth : k \in DOMAIN layout.nodes}

\* C30: for an acyclic job list every edge leads from a node of smaller depth
\* and smaller x to a node of larger depth and larger x, the occupied depths
\* are 0..maxDepth without a gap, and no two nodes share a (depth, row) or an
\* (x, y).
C30_ColumnsLeftToRight ==
    (layout.called /\ Acyclic(jobs) /\ jobs # <<>>) =>
        /\ ~layout.threw
        /\ \A i \in DOMAIN layout.edges :
              /\ layout.edges[i].fromNode.depth < layout.edges[i].toNode.depth
              /\ layout.edges[i].fromNode.x < layout.edges[i].toNode.x
        /\ \E m \in 0..Len(jobs) : OccupiedDepths = 0..m
        /\ \A a, b \in DOMAIN layout.nodes :
              a # b =>
                 /\ <<layout.nodes[a].depth, layout.nodes[a].row>> #
                       <<layout.nodes[b].depth, layout.nodes[b].row>>
                 /\ <<layout.nodes[a].x, layout.nodes[a].y>> #
                       <<layout.nodes[b].x, layout.nodes[b].y>>

\* A laid-out acyclic list with two jobs in the first column and a job in the
\* second that depends on both.
C30_Witness ==
    /\ layout.called /\ Acyclic(jobs) /\ ~layout.threw
    /\ Len(layout.edges) = 2
    /\ layout.edges[1].to = layout.edges[2].to
    /\ Cardinality({k \in DOMAIN layout.nodes : layout.nodes[k].depth = 0}) = 2
    /\ OccupiedDepths = {0, 1}

====
